---- MODULE Spec2Model ----
(***************************************************************************)
(* Model of the image-matcher core (src/image-matcher/matcher.py,          *)
(* embeddings.py): the catalog index build of ProductMatcher and           *)
(* HashProductMatcher, and their match queries.                            *)
(*                                                                         *)
(* Python values are represented as follows.  A catalog product is a       *)
(* record whose DOMAIN is the set of keys of the dict (a key that is       *)
(* absent from the dict is absent from the DOMAIN).  Python lists are      *)
(* sequences; 0-based Python indices (idx, pos, FAISS row numbers) keep    *)
(* their Python values, so row ix is product_images[ix + 1].  Scores are   *)
(* exact rationals score/ScoreDen, held as the integer numerator.          *)
(***************************************************************************)
EXTENDS Integers, Sequences, FiniteSets, TLC

VARIABLES
    backend,                \* "clip": ProductMatcher, "hash": HashProductMatcher
    catalog,                \* self.catalog
    max_catalog_images,     \* self.max_catalog_images
    max_images_per_product, \* self.max_images_per_product
    hash_size,              \* self.hash_size (HashProductMatcher only, else 0)
    net,                    \* the network: what a request for the broken link can give
    faiss,                  \* the FAISS build in use: what the library leaves open
    product_images,         \* self.product_images
    product_id_to_idx,      \* self.product_id_to_idx (ProductMatcher only)
    vecs,                   \* local vecs of ProductMatcher._build_index
    index,                  \* self.index: NoIndex or the rows of the FAISS index
    idx,                    \* local idx of _build_index
    p_i,                    \* position of the outer loop (1-based, in catalog)
    img_i,                  \* position of the inner loop (1-based, in the slice)
    pc,                     \* "outer", "inner", "post", "ready"
    step,                   \* history: what the last step of the program did
    call,                   \* history: the arguments of the last match call
    cands,                  \* history: the image-level candidates of that call
    out,                    \* history: the list that call returned
    probe,                  \* the last two hash scores computed on their own
    prev,                   \* history: an earlier match call that is remembered
    earlier,                \* history: the index of an earlier construction
    catalog_file,           \* the content of catalog.json (<<>>: no file, or no products)
    _matcher,               \* main._matcher: the cached matcher of the process
    loads,                  \* how many times load_model has been called
    loop,                   \* the request that runs on the event loop
    waiting,                \* the matchers held by match requests suspended in an await
    sync,                   \* the sync request that runs in the thread pool
    served,                 \* history: the matcher the last match call ran against
    response,               \* history: the last response of the service
    failed,                 \* history: the last construction raised
    published,              \* history: a matcher has been cached before
    request                 \* the webhook request whose headers are being checked

vars == <<backend, catalog, max_catalog_images, max_images_per_product, hash_size,
          net, faiss, product_images, product_id_to_idx, vecs, index, idx, p_i,
          img_i, pc, step, call, cands, out, probe, prev, earlier,
          catalog_file, _matcher, loads, loop, waiting, sync, served, response, failed,
          published, request>>

config == <<backend, catalog, max_catalog_images, max_images_per_product, hash_size,
            net, faiss>>

\* The service around the matcher (main.py).
service == <<catalog_file, _matcher, loads, loop, waiting, sync, served, response, failed,
             published, request>>

\* What only the observers of the matcher hold, and the service.
aux == <<probe, prev, earlier, service>>

matchVars == <<call, cands, out>>

----------------------------------------------------------------------------
(* Bounds of the model. *)

MaxProducts == 2      \* products in a catalog
MaxImages == 2        \* image URLs of one product
MaxCap == 2           \* largest configured max_catalog_images / max_images_per_product
MaxTopK == 2          \* largest requested top_k
MaxHashSize == 4      \* largest configured hash_size
MaxProbeHashSize == 5 \* largest hash_size of the score computations on their own

----------------------------------------------------------------------------
(* Small arithmetic. *)

Max(a, b) == IF a >= b THEN a ELSE b

Min(a, b) == IF a <= b THEN a ELSE b

----------------------------------------------------------------------------
(* The world outside the matcher: what is behind each URL, and images. *)

\* Image URLs of catalog records.  "a" and "b" serve the decodable images "a" and
\* "b".  "x" is a broken link: a request for it times out, fails, serves bytes that
\* do not decode, or serves the image "z", on which feature extraction raises.  What
\* a request for it can give at present is the state net of the network.
LiveUrls == {"a", "b"}

\* The broken link, as it is for one matcher: every request for it fails in one of
\* the two ways.
BrokenLink == {"exception", "z"}

Urls == {"", "a", "b", "x"}

\* An image URL that is None (JSON null) in the catalog.
NoneUrl == "None"

\* Faulty variant: only the empty string is passed over.
EmptyUrlOnlyString(url) == url = ""

\* not img_url: the URL is None or the empty string.
EmptyUrl(url) == url \in {"", NoneUrl}

NoImage == "None"

\* The exceptions of a download: requests.Timeout after the timeout of 4 seconds, or
\* any other (connection refused, HTTP error status, bytes that are no image).
FetchFailures == {"timeout", "exception"}

\* requests.get(url, timeout=4) + raise_for_status + Image.open(...).convert("RGB"):
\* the possible results, a decoded image or an exception.  requests.get raises on a
\* URL without a scheme, as None and "" are.
Download(url) ==
    IF url \in LiveUrls THEN {url}
    ELSE IF url = "x" THEN net
    ELSE {"exception"}

\* ProductMatcher._fetch_image / HashProductMatcher._fetch_image: every exception of
\* the download is caught and turned into None.
FetchImage(url) ==
    {IF r \in FetchFailures THEN NoImage ELSE r : r \in Download(url)}

\* Decodable images: the content served by the live URLs and the ticket images of
\* the queries.  "z" decodes but makes feature extraction raise.
Images == {"a", "b", "c", "d", "z"}

\* A ticket image file that load_and_strip_exif cannot open.
CorruptFile == "corrupt"

----------------------------------------------------------------------------
(* Embedding strategy (embeddings.py).  A vector is held in polar form: its  *)
(* direction in units of 30 degrees and its Euclidean norm.                  *)

\* 100 * cos(k * 30 degrees), rounded, for k = 0..11.
CosTable == <<100, 87, 50, 0, -50, -87, -100, -87, -50, 0, 50, 87>>

Directions == Len(CosTable)

\* The inner product of a unit vector with itself: scores are in units of 1/CosScale.
CosScale == CosTable[1]

\* Feature extraction (the encoder, or imagehash.phash) raises on this image.
ExtractRaises(img) == img \notin {"a", "b", "c", "d"}

\* model.encode_image: the raw output of the encoder.
EncodeImage(img) ==
    CASE img = "a" -> [dir |-> 0, norm |-> 3]
      [] img = "b" -> [dir |-> 2, norm |-> 2]
      [] img = "c" -> [dir |-> 5, norm |-> 4]
      [] img = "d" -> [dir |-> 1, norm |-> 5]

\* Faulty variant: the vector is not normalized.
EmbedImageRaw(img) == EncodeImage(img)

\* embed_image: encode, then v / v.norm.
EmbedImage(img) ==
    LET v == EncodeImage(img)
    IN  [dir |-> v.dir, norm |-> v.norm \div v.norm]

\* The inner product of two vectors, in units of 1/CosScale.
InnerProduct(v, w) ==
    v.norm * w.norm * CosTable[((v.dir - w.dir + Directions) % Directions) + 1]

----------------------------------------------------------------------------
(* Hash strategy (imagehash, as used by HashProductMatcher).  A hash is a    *)
(* sequence of hash_size^2 bits; its stored form is a hex string, held as a  *)
(* sequence of hex digits 0..15.                                             *)

Zeros(n) == [i \in 1..n |-> 0]

OnesThenZeros(k, n) == [i \in 1..n |-> IF i <= k THEN 1 ELSE 0]

\* imagehash.phash(img, hash_size=hs): the hs*hs bits of the image.
PHash(img, hs) ==
    CASE img = "a" -> Zeros(hs * hs)
      [] img = "b" -> OnesThenZeros(4, hs * hs)
      [] img = "c" -> OnesThenZeros(hs * hs, hs * hs)
      [] img = "d" -> OnesThenZeros(2, hs * hs)

PadLeft(bits, n) ==
    IF Len(bits) >= n THEN bits ELSE Zeros(n - Len(bits)) \o bits

RECURSIVE StripLeadingZeros(_)
StripLeadingZeros(bits) ==
    IF bits = <<>> THEN <<>>
    ELSE IF Head(bits) = 0 THEN StripLeadingZeros(Tail(bits))
    ELSE bits

\* str(ImageHash): the bits read as one binary number, printed in hex, zero-padded
\* to ceil(n / 4) digits.
HashToHex(bits) ==
    LET width == (Len(bits) + 3) \div 4
        p == PadLeft(bits, 4 * width)
    IN  [j \in 1..width |->
            8 * p[4 * j - 3] + 4 * p[4 * j - 2] + 2 * p[4 * j - 1] + p[4 * j]]

\* int(sqrt(n))
ISqrt(n) == CHOOSE r \in 0..n : r * r <= n /\ (r + 1) * (r + 1) > n

HexDigitBits(d) == <<(d \div 8) % 2, (d \div 4) % 2, (d \div 2) % 2, d % 2>>

\* imagehash.hex_to_hash: the size is recovered from the length of the string, the
\* number is printed in binary and zero-padded to size*size bits.
HexToHash(hex) ==
    LET hs == ISqrt(Len(hex) * 4)
        all == [i \in 1..(4 * Len(hex)) |-> HexDigitBits(hex[((i - 1) \div 4) + 1])[((i - 1) % 4) + 1]]
    IN  PadLeft(StripLeadingZeros(all), hs * hs)

\* ImageHash.__sub__: the number of differing bits.
Hamming(h1, h2) ==
    Cardinality({i \in 1..Len(h1) : h1[i] # h2[i]})

\* Faulty variant: the distance ratio is not taken from 1.
HashScoreRatio(distance, hs) == Max(0, distance)

\* HashProductMatcher.match, lines 170-174: max(0.0, 1.0 - distance / max_distance)
\* as the numerator over max_distance = hs * hs.
HashScore(distance, hs) == Max(0, hs * hs - distance)

----------------------------------------------------------------------------
(* Catalog records. *)

HasKey(p, k) == k \in DOMAIN p

\* The value of key k is None (JSON null): the record lists k in its field null, and
\* holds the empty value of the key's type in its place.
IsNone(p, k) == HasKey(p, "null") /\ k \in p.null

DigitStr(n) == <<"0", "1", "2", "3", "4", "5", "6", "7", "8", "9">>[n + 1]

\* Faulty variant: a missing id is not replaced by the Shopify number.
ProdIdNoFallback(p) == IF HasKey(p, "id") THEN p.id ELSE ""

\* p.get("id") or str(p.get("shopify_product_id", ""))
ProdId(p) ==
    IF HasKey(p, "id") /\ ~IsNone(p, "id") /\ p.id # "" THEN p.id
    ELSE IF HasKey(p, "shopify_product_id") THEN DigitStr(p.shopify_product_id)
    ELSE ""

\* p.get("online_store_url", "")
StoreUrl(p) == IF HasKey(p, "online_store_url") THEN p.online_store_url ELSE ""

\* Faulty variant: the image list is not sliced.
ImageSliceWhole(p, cap) == IF HasKey(p, "images") THEN p.images ELSE <<>>

\* (p.get("images", []) or [])[: self.max_images_per_product]
ImageSlice(p, cap) ==
    LET imgs == IF HasKey(p, "images") /\ ~IsNone(p, "images") THEN p.images ELSE <<>>
    IN  SubSeq(imgs, 1, Min(cap, Len(imgs)))

SeqsUpTo(S, n) == UNION {[1..k -> S] : k \in 0..n}

\* What identifies a product in a catalog file: an id, or only a Shopify number.
Identities ==
    { [id |-> "p1", online_store_url |-> "/p1"],
      [shopify_product_id |-> 7, online_store_url |-> "/p7"] }

Products ==
    Identities \cup {i @@ [images |-> s] : i \in Identities, s \in SeqsUpTo(Urls, MaxImages)}

Catalogs == SeqsUpTo(Products, MaxProducts)

----------------------------------------------------------------------------
(* Construction: ProductMatcher.__init__ and HashProductMatcher.__init__.   *)

\* self.index is None.  A FAISS index is held as the sequence of its rows and is
\* built from one vector or more (lines 73-77), so no index is the empty sequence.
NoIndex == <<>>

NoCall == [file |-> "None", top_k |-> 0, low_first |-> TRUE]

\* No match call is remembered.
NoPrev == [file |-> "None", top_k |-> 0, out |-> <<>>, step |-> "none", others |-> 0]

\* No earlier construction is remembered.
NoEarlier == [built |-> FALSE, product_images |-> <<>>, rows |-> <<>>]

Backends == {"clip", "hash"}

\* The FAISS builds: which of two rows of equal score a search reports first, and
\* whether the Python wrapper of search refuses k = 0 (it asserts k > 0 in the
\* later releases) or returns no neighbours.
FaissBuilds ==
    { [low_first |-> TRUE, rejects_zero_k |-> TRUE],
      [low_first |-> FALSE, rejects_zero_k |-> FALSE] }

\* The hash matcher does not use FAISS.
NoFaiss == [low_first |-> TRUE, rejects_zero_k |-> TRUE]

\* max(1, int(max_catalog_images)), max(1, int(max_images_per_product))
ClampCap(c) == Max(1, c)

\* max(4, int(hash_size))
ClampHashSize(h) == Max(4, h)

\* No matcher is cached.
NoMatcher ==
    [kind |-> "none", catalog |-> <<>>, product_images |-> <<>>, rows |-> <<>>,
     complete |-> FALSE]

\* The event loop is idle.
NoLoop == [kind |-> "idle", at |-> "idle", ref |-> NoMatcher, catalog |-> <<>>, errors |-> 0]

\* No sync request is running.
NoSync == [at |-> "idle", catalog |-> <<>>, n |-> 0]

NoResponse ==
    [kind |-> "none", accepted |-> FALSE, raised |-> FALSE, ok |-> FALSE, status |-> 0,
     reason |-> "", predictions |-> 0, errors |-> 0]

\* The signature header is absent or empty.
NoSignature == [b64 |-> [key |-> "", msg |-> <<>>]]

\* No webhook request is being checked.
NoRequest ==
    [secret |-> "", header_secret |-> "", timestamp |-> <<>>, signature |-> NoSignature,
     body |-> <<>>]

\* The matcher stands alone: there is no service around it.
NoService ==
    /\ catalog_file = <<>>
    /\ _matcher = NoMatcher
    /\ loads = 0
    /\ loop = NoLoop
    /\ waiting = {}
    /\ sync = NoSync
    /\ served = NoMatcher
    /\ response = NoResponse
    /\ failed = FALSE
    /\ published = FALSE
    /\ request = NoRequest

\* The fields and locals of a matcher when its constructor calls _build_index, and
\* nothing observed of it yet.
Fresh ==
    /\ product_images = <<>>
    /\ product_id_to_idx = <<>>
    /\ vecs = <<>>
    /\ index = NoIndex
    /\ idx = 0
    /\ p_i = 1
    /\ img_i = 1
    /\ pc = "outer"
    /\ step = "constructed"
    /\ call = NoCall
    /\ cands = <<>>
    /\ out = <<>>
    /\ probe = <<>>
    /\ prev = NoPrev
    /\ earlier = NoEarlier
    /\ NoService

\* The state in which the constructor calls _build_index.
Init ==
    /\ backend \in Backends
    /\ catalog \in Catalogs
    /\ max_catalog_images \in {ClampCap(c) : c \in 0..MaxCap}
    /\ max_images_per_product \in {ClampCap(c) : c \in 0..MaxCap}
    /\ hash_size \in IF backend = "hash"
                     THEN {ClampHashSize(h) : h \in 3..MaxHashSize}
                     ELSE {0}
    /\ net = BrokenLink
    /\ faiss \in IF backend = "clip" THEN FaissBuilds ELSE {NoFaiss}
    /\ Fresh

----------------------------------------------------------------------------
(* _build_index, one action per loop step. *)

\* The product of the outer loop and the URL of the inner loop.
CurProduct == catalog[p_i]

CurSlice == ImageSlice(CurProduct, max_images_per_product)

CurUrl == CurSlice[img_i]

\* The feature of a fetched image: embed_image, or str(imagehash.phash(...)).
ExtractFeature(img) ==
    IF backend = "clip" THEN EmbedImage(img) ELSE HashToHex(PHash(img, hash_size))

\* The dict appended to self.product_images (handle and title, which nothing reads,
\* are left out).
IndexRecord(p, pos, img_url, feature) ==
    LET base == [product_id |-> ProdId(p),
                 online_store_url |-> StoreUrl(p),
                 position |-> pos,
                 image_url |-> img_url]
    IN  IF backend = "hash" THEN base @@ [phash |-> feature] ELSE base

\* Faulty variant: the list of a product id is started anew by each of its rows.
AddRowOverwrites(map, pid, row) ==
    IF pid \in DOMAIN map
    THEN [map EXCEPT ![pid] = <<row>>]
    ELSE map @@ (pid :> <<row>>)

\* self.product_id_to_idx after lines 67-69.
AddRow(map, pid, row) ==
    IF pid \in DOMAIN map
    THEN [map EXCEPT ![pid] = Append(@, row)]
    ELSE map @@ (pid :> <<row>>)

\* Faulty variant: idx is not started from 0 by a later construction.
CapReachedCounting(i, cap) == i + Len(earlier.product_images) >= cap

\* if idx >= self.max_catalog_images (line 44 / 138, before each product)
CapReached(i, cap) == i >= cap

\* Faulty variant: the cap is tested one image too late.
InnerCapReachedLate(i, cap) == i > cap

\* Faulty variant: the cap is tested between products only.
InnerCapNeverReached(i, cap) == FALSE

\* if idx >= self.max_catalog_images (line 49 / 143, before each image)
InnerCapReached(i, cap) == i >= cap

\* for p in self.catalog: the catalog is exhausted.
OuterDone ==
    /\ pc = "outer"
    /\ p_i > Len(catalog)
    /\ pc' = "post"
    /\ step' = "loop_done"
    /\ UNCHANGED <<config, aux, product_images, product_id_to_idx, vecs, index, idx, p_i,
                   img_i, matchVars>>

\* if idx >= self.max_catalog_images: break (outer loop).
OuterBreak ==
    /\ pc = "outer"
    /\ p_i <= Len(catalog)
    /\ CapReached(idx, max_catalog_images)
    /\ pc' = "post"
    /\ step' = "outer_break"
    /\ UNCHANGED <<config, aux, product_images, product_id_to_idx, vecs, index, idx, p_i,
                   img_i, matchVars>>

\* Lines 46-48: the next product is entered and its image slice taken.
EnterProduct ==
    /\ pc = "outer"
    /\ p_i <= Len(catalog)
    /\ ~CapReached(idx, max_catalog_images)
    /\ pc' = "inner"
    /\ img_i' = 1
    /\ step' = "enter_product"
    /\ UNCHANGED <<config, aux, product_images, product_id_to_idx, vecs, index, idx, p_i,
                   matchVars>>

\* The image slice of the product is exhausted: on to the next product.
InnerDone ==
    /\ pc = "inner"
    /\ img_i > Len(CurSlice)
    /\ pc' = "outer"
    /\ p_i' = p_i + 1
    /\ step' = "product_done"
    /\ UNCHANGED <<config, aux, product_images, product_id_to_idx, vecs, index, idx, img_i,
                   matchVars>>

\* if idx >= self.max_catalog_images: break (inner loop).
InnerBreak ==
    /\ pc = "inner"
    /\ img_i <= Len(CurSlice)
    /\ InnerCapReached(idx, max_catalog_images)
    /\ pc' = "outer"
    /\ p_i' = p_i + 1
    /\ step' = "inner_break"
    /\ UNCHANGED <<config, aux, product_images, product_id_to_idx, vecs, index, idx, img_i,
                   matchVars>>

\* The guard of the three ways one image URL is passed over or indexed.
AtImage ==
    /\ pc = "inner"
    /\ img_i <= Len(CurSlice)
    /\ ~InnerCapReached(idx, max_catalog_images)

\* if not img_url: continue
SkipEmptyUrl ==
    /\ AtImage
    /\ EmptyUrl(CurUrl)
    /\ img_i' = img_i + 1
    /\ step' = "empty_url"
    /\ UNCHANGED <<config, aux, product_images, product_id_to_idx, vecs, index, idx, p_i,
                   pc, matchVars>>

\* Faulty variant: a failed fetch is tried again.
FetchFailedRetries ==
    /\ pc = "inner"
    /\ img_i <= Len(CurSlice)
    /\ ~InnerCapReached(idx, max_catalog_images)
    /\ ~EmptyUrl(CurUrl)
    /\ NoImage \in FetchImage(CurUrl)
    /\ step' = "fetch_failed"
    /\ UNCHANGED <<config, aux, product_images, product_id_to_idx, vecs, index, idx, p_i,
                   img_i, pc, matchVars>>

\* Faulty variant: a failed fetch ends the walk of the product (break for continue).
FetchFailedBreaks ==
    /\ pc = "inner"
    /\ img_i <= Len(CurSlice)
    /\ ~InnerCapReached(idx, max_catalog_images)
    /\ ~EmptyUrl(CurUrl)
    /\ NoImage \in FetchImage(CurUrl)
    /\ pc' = "outer"
    /\ p_i' = p_i + 1
    /\ step' = "fetch_failed"
    /\ UNCHANGED <<config, aux, product_images, product_id_to_idx, vecs, index, idx, img_i,
                   matchVars>>

\* img = self._fetch_image(img_url); if img is None: continue
FetchFailed ==
    /\ AtImage
    /\ ~EmptyUrl(CurUrl)
    /\ NoImage \in FetchImage(CurUrl)
    /\ img_i' = img_i + 1
    /\ step' = "fetch_failed"
    /\ UNCHANGED <<config, aux, product_images, product_id_to_idx, vecs, index, idx, p_i,
                   pc, matchVars>>

\* Feature extraction raises: except Exception: continue
ExtractRaised ==
    /\ AtImage
    /\ ~EmptyUrl(CurUrl)
    /\ \E img \in FetchImage(CurUrl) : img # NoImage /\ ExtractRaises(img)
    /\ img_i' = img_i + 1
    /\ step' = "extract_raised"
    /\ UNCHANGED <<config, aux, product_images, product_id_to_idx, vecs, index, idx, p_i,
                   pc, matchVars>>

\* Lines 57-70 / 151-161: the image is fetched, its feature extracted, the record
\* appended and idx advanced.
IndexImage ==
    /\ AtImage
    /\ ~EmptyUrl(CurUrl)
    /\ \E img \in FetchImage(CurUrl) :
          /\ img # NoImage
          /\ ~ExtractRaises(img)
          /\ LET feature == ExtractFeature(img)
             IN  /\ product_images' =
                       Append(product_images,
                              IndexRecord(CurProduct, img_i - 1, CurUrl, feature))
                 /\ IF backend = "clip"
                    THEN /\ vecs' = Append(vecs, feature)
                         /\ product_id_to_idx' =
                               AddRow(product_id_to_idx, ProdId(CurProduct), idx)
                    ELSE UNCHANGED <<vecs, product_id_to_idx>>
    /\ idx' = idx + 1
    /\ img_i' = img_i + 1
    /\ step' = "indexed"
    /\ UNCHANGED <<config, aux, index, p_i, pc, matchVars>>

\* build_faiss_index: an IndexFlatIP holding the rows of vectors, in order.
BuildFaissIndex(vectors) == vectors

\* Lines 73-77: the FAISS index is built from vecs, or left None.  The hash matcher
\* has nothing left to do after the loops.
FinishBuild ==
    /\ pc = "post"
    /\ index' = IF backend = "clip" /\ vecs # <<>> THEN BuildFaissIndex(vecs) ELSE NoIndex
    /\ pc' = "ready"
    /\ step' = "built"
    /\ UNCHANGED <<config, aux, product_images, product_id_to_idx, vecs, idx, p_i, img_i,
                   matchVars>>

BuildStep ==
    \/ OuterDone
    \/ OuterBreak
    \/ EnterProduct
    \/ InnerDone
    \/ InnerBreak
    \/ SkipEmptyUrl
    \/ FetchFailed
    \/ ExtractRaised
    \/ IndexImage
    \/ FinishBuild

----------------------------------------------------------------------------
(* match *)

\* The ticket image files given to match.
QueryFiles == {"a", "c", "d", CorruptFile}

TopKs == 0..MaxTopK

\* load_and_strip_exif(image_path): Image.open raises on a file that is no image;
\* otherwise the decoded image.
LoadRaises(file) == file \notin Images

\* self.product_images[ix]: a negative ix counts from the end of the list.
Row(ix) ==
    IF ix >= 0 THEN product_images[ix + 1]
    ELSE product_images[Len(product_images) + ix + 1]

\* if ix < 0: continue
InvalidIndex(ix) == ix < 0

\* The denominator of the scores of this matcher: inner products are in units of
\* 1/CosScale, hash scores are (max_distance - distance) / max_distance.
ScoreDen == IF backend = "clip" THEN CosScale ELSE hash_size * hash_size

\* The score FAISS reports beside the label -1 of a missing neighbour (-FLT_MAX).
NoResultScore == -(CosScale * CosScale)

\* Faulty variant: the order of equal scores changes once a call has been answered.
PrecedesByHistory(sc, i, j, low_first) ==
    \/ sc[i] > sc[j]
    \/ sc[i] = sc[j] /\ (IF prev = NoPrev THEN i < j ELSE i > j)

\* The order in which IndexFlatIP reports row i before row j (rows from 1): by
\* descending inner product; the order of equal inner products is the library's,
\* the same in every search of one process.
Precedes(sc, i, j, low_first) ==
    \/ sc[i] > sc[j]
    \/ sc[i] = sc[j] /\ (IF low_first THEN i < j ELSE i > j)

\* faiss IndexFlatIP.search(query, k): the k best rows, padded with label -1.
FaissSearch(rows, q, k, low_first) ==
    LET n == Len(rows)
        sc == [i \in 1..n |-> InnerProduct(q, rows[i])]
        at(r) == CHOOSE i \in 1..n :
                    Cardinality({j \in 1..n : Precedes(sc, j, i, low_first)}) = r - 1
    IN  [r \in 1..k |->
            IF r <= n THEN [score |-> sc[at(r)], ix |-> at(r) - 1]
            ELSE [score |-> NoResultScore, ix |-> -1]]

\* embeddings.search: scores[0], indices[0] of index.search, zipped.
Search(rows, q, k, low_first) == FaissSearch(rows, q, k, low_first)

\* Faulty variant: the last candidate of a product wins.
ReplacesAlways(sc, old) == TRUE

\* sc > seen[pid]["score"]
Replaces(sc, old) == sc > old

\* Faulty variant: a replaced entry is deleted and inserted anew, at the end.
RECURSIVE AggregateReinserting(_, _)
AggregateReinserting(cs, seen) ==
    IF cs = <<>> THEN seen
    ELSE LET c == Head(cs)
         IN  IF InvalidIndex(c.ix) THEN AggregateReinserting(Tail(cs), seen)
             ELSE LET pi == Row(c.ix)
                      entry == [product_id |-> pi.product_id,
                                url |-> pi.online_store_url,
                                score |-> c.score]
                      at == {i \in 1..Len(seen) : seen[i].product_id = pi.product_id}
                  IN  IF at = {} THEN AggregateReinserting(Tail(cs), Append(seen, entry))
                      ELSE LET i == CHOOSE i \in at : TRUE
                               rest == [r \in 1..(Len(seen) - 1) |->
                                           IF r < i THEN seen[r] ELSE seen[r + 1]]
                           IN  IF Replaces(c.score, seen[i].score)
                               THEN AggregateReinserting(Tail(cs), Append(rest, entry))
                               ELSE AggregateReinserting(Tail(cs), seen)

\* Lines 98-105 / 171-177: seen, as the sequence of its values in insertion order
\* (assigning to an existing key of a dict keeps the key's place).
RECURSIVE Aggregate(_, _)
Aggregate(cs, seen) ==
    IF cs = <<>> THEN seen
    ELSE LET c == Head(cs)
         IN  IF InvalidIndex(c.ix) THEN Aggregate(Tail(cs), seen)
             ELSE LET pi == Row(c.ix)
                      entry == [product_id |-> pi.product_id,
                                url |-> pi.online_store_url,
                                score |-> c.score]
                      at == {i \in 1..Len(seen) : seen[i].product_id = pi.product_id}
                  IN  IF at = {} THEN Aggregate(Tail(cs), Append(seen, entry))
                      ELSE LET i == CHOOSE i \in at : TRUE
                           IN  IF Replaces(c.score, seen[i].score)
                               THEN Aggregate(Tail(cs), [seen EXCEPT ![i] = entry])
                               ELSE Aggregate(Tail(cs), seen)

\* Faulty variant: the results are left in insertion order.
Unsorted(seen) == seen

\* sorted(seen.values(), key=lambda x: -x["score"]): a stable sort.
SortedByScore(seen) ==
    LET n == Len(seen)
        before(j, i) == \/ seen[j].score > seen[i].score
                        \/ seen[j].score = seen[i].score /\ j < i
        at(r) == CHOOSE i \in 1..n : Cardinality({j \in 1..n : before(j, i)}) = r - 1
    IN  [r \in 1..n |-> seen[at(r)]]

\* Faulty variant: the sorted list is returned whole.
TakeAll(s, k) == s

\* s[:k]
TakeTopK(s, k) ==
    IF k >= 0 THEN SubSeq(s, 1, Min(k, Len(s)))
    ELSE SubSeq(s, 1, Max(0, Len(s) + k))

\* The candidates of HashProductMatcher.match: every indexed image, in index order,
\* with the score of lines 173-174.
HashCandidates(query_hash) ==
    [i \in 1..Len(product_images) |->
        [score |-> HashScore(Hamming(query_hash, HexToHash(product_images[i].phash)),
                             hash_size),
         ix |-> i - 1]]

\* if self.index is None / if not self.product_images
IndexEmpty ==
    IF backend = "clip" THEN index = NoIndex ELSE product_images = <<>>

\* Faulty variant: the image is loaded before the index is looked at.
MatchEmptyAfterLoad(file, top_k) ==
    /\ pc = "ready"
    /\ call = NoCall
    /\ IndexEmpty
    /\ ~LoadRaises(file)
    /\ call' = [file |-> file, top_k |-> top_k, low_first |-> TRUE]
    /\ cands' = <<>>
    /\ out' = <<>>
    /\ step' = "match_returned"
    /\ UNCHANGED <<config, aux, product_images, product_id_to_idx, vecs, index, idx,
                   p_i, img_i, pc>>

\* match on an empty index: return [] before the image is touched.
MatchEmpty(file, top_k) ==
    /\ pc = "ready"
    /\ call = NoCall
    /\ IndexEmpty
    /\ call' = [file |-> file, top_k |-> top_k, low_first |-> TRUE]
    /\ cands' = <<>>
    /\ out' = <<>>
    /\ step' = "match_returned"
    /\ UNCHANGED <<config, aux, product_images, product_id_to_idx, vecs, index, idx, p_i,
                   img_i, pc>>

\* Faulty variant: the whole index is asked for.
CandidateCountWhole(top_k, n) == n

\* Faulty variant: only top_k neighbours are asked for.
CandidateCountTopK(top_k, n) == Min(top_k, n)

\* k=min(top_k * 2, len(self.product_images))
CandidateCount(top_k, n) == Min(top_k * 2, n)

\* The embedding backend is asked for k = 0 neighbours (top_k = 0).
ZeroNeighbours(top_k) ==
    backend = "clip" /\ CandidateCount(top_k, Len(product_images)) = 0

\* match raises: the file does not load, feature extraction raises, or FAISS
\* rejects k = 0.
MatchRaises(file, top_k) ==
    /\ pc = "ready"
    /\ call = NoCall
    /\ ~IndexEmpty
    /\ \/ LoadRaises(file)
       \/ ExtractRaises(file)
       \/ ZeroNeighbours(top_k) /\ faiss.rejects_zero_k
    /\ call' = [file |-> file, top_k |-> top_k, low_first |-> TRUE]
    /\ cands' = <<>>
    /\ out' = <<>>
    /\ step' = "match_raised"
    /\ UNCHANGED <<config, aux, product_images, product_id_to_idx, vecs, index, idx, p_i,
                   img_i, pc>>

\* ProductMatcher.match, lines 94-107.
MatchClip(file, top_k, low_first) ==
    /\ pc = "ready"
    /\ call = NoCall
    /\ backend = "clip"
    /\ ~IndexEmpty
    /\ ~LoadRaises(file)
    /\ ~ExtractRaises(file)
    /\ ZeroNeighbours(top_k) => ~faiss.rejects_zero_k
    /\ LET vec == EmbedImage(file)
           found == Search(index, vec, CandidateCount(top_k, Len(product_images)),
                           low_first)
       IN  /\ cands' = found
           /\ out' = TakeTopK(SortedByScore(Aggregate(found, <<>>)), top_k)
    /\ call' = [file |-> file, top_k |-> top_k, low_first |-> low_first]
    /\ step' = "match_returned"
    /\ UNCHANGED <<config, aux, product_images, product_id_to_idx, vecs, index, idx, p_i,
                   img_i, pc>>

\* Faulty variant: the scan consumes the index (the first record is popped).
MatchHashConsumes(file, top_k) ==
    /\ pc = "ready"
    /\ call = NoCall
    /\ backend = "hash"
    /\ ~IndexEmpty
    /\ ~LoadRaises(file)
    /\ ~ExtractRaises(file)
    /\ LET found == HashCandidates(PHash(file, hash_size))
       IN  /\ cands' = found
           /\ out' = TakeTopK(SortedByScore(Aggregate(found, <<>>)), top_k)
    /\ product_images' = Tail(product_images)
    /\ call' = [file |-> file, top_k |-> top_k, low_first |-> TRUE]
    /\ step' = "match_returned"
    /\ UNCHANGED <<config, aux, product_id_to_idx, vecs, index, idx, p_i, img_i, pc>>

\* HashProductMatcher.match, lines 168-178.
MatchHash(file, top_k) ==
    /\ pc = "ready"
    /\ call = NoCall
    /\ backend = "hash"
    /\ ~IndexEmpty
    /\ ~LoadRaises(file)
    /\ ~ExtractRaises(file)
    /\ LET found == HashCandidates(PHash(file, hash_size))
       IN  /\ cands' = found
           /\ out' = TakeTopK(SortedByScore(Aggregate(found, <<>>)), top_k)
    /\ call' = [file |-> file, top_k |-> top_k, low_first |-> TRUE]
    /\ step' = "match_returned"
    /\ UNCHANGED <<config, aux, product_images, product_id_to_idx, vecs, index, idx, p_i,
                   img_i, pc>>

\* The caller has taken the result: the history of the call is dropped, and the
\* next call can be recorded.
Forget ==
    /\ pc = "ready"
    /\ call # NoCall
    /\ call' = NoCall
    /\ cands' = <<>>
    /\ out' = <<>>
    /\ step' = "built"
    /\ prev' = IF prev = NoPrev THEN prev ELSE [prev EXCEPT !.others = 1]
    /\ UNCHANGED <<config, probe, earlier, service, product_images, product_id_to_idx, vecs, index,
                   idx, p_i, img_i, pc>>

\* The caller has taken the result and keeps it: the first call whose outcome is
\* held, to be compared with the later calls of the same arguments.
Remember ==
    /\ pc = "ready"
    /\ call # NoCall
    /\ prev = NoPrev
    /\ prev' = [file |-> call.file, top_k |-> call.top_k, out |-> out, step |-> step,
                others |-> 0]
    /\ call' = NoCall
    /\ cands' = <<>>
    /\ out' = <<>>
    /\ step' = "built"
    /\ UNCHANGED <<config, probe, earlier, service, product_images, product_id_to_idx, vecs, index,
                   idx, p_i, img_i, pc>>

Match ==
    \E file \in QueryFiles, top_k \in TopKs :
        \/ MatchEmpty(file, top_k)
        \/ MatchRaises(file, top_k)
        \/ MatchClip(file, top_k, faiss.low_first)
        \/ MatchHash(file, top_k)

Next == BuildStep \/ Match \/ Forget

----------------------------------------------------------------------------
(* The hash score on its own: lines 173-174 of HashProductMatcher.match applied *)
(* to a stored hash and a query hash at every Hamming distance.                 *)

InitScore ==
    /\ backend = "hash"
    /\ catalog = <<>>
    /\ max_catalog_images = ClampCap(0)
    /\ max_images_per_product = ClampCap(0)
    /\ hash_size \in {ClampHashSize(h) : h \in 3..MaxProbeHashSize}
    /\ net = BrokenLink
    /\ faiss = NoFaiss
    /\ Fresh

\* distance = query_hash - imagehash.hex_to_hash(pi["phash"]);
\* score = max(0.0, 1.0 - (float(distance) / max_distance))
ScoreOf(query_hash, phash) ==
    LET distance == Hamming(query_hash, HexToHash(phash))
    IN  [distance |-> distance, score |-> HashScore(distance, hash_size)]

ScoreProbe ==
    \E ones \in 0..(hash_size * hash_size), flipped \in BOOLEAN :
        LET bits == hash_size * hash_size
            stored == IF flipped THEN OnesThenZeros(bits, bits) ELSE Zeros(bits)
            query == OnesThenZeros(ones, bits)
        IN  /\ probe' = Append(IF Len(probe) < 2 THEN probe ELSE Tail(probe),
                               ScoreOf(query, HashToHex(stored)))
            /\ UNCHANGED <<config, prev, earlier, service, product_images, product_id_to_idx,
                           vecs, index, idx, p_i, img_i, pc, step, matchVars>>

ScoreSpec == InitScore /\ [][ScoreProbe]_vars

Spec == Init /\ [][Next]_vars

----------------------------------------------------------------------------
(* A matcher constructed a second time from the same catalog and caps.      *)

\* Networks: the broken link fails in one way, serves the decodable image "d", or
\* is flaky (a request fails or serves "d").
Networks == { {"exception"}, {"z"}, {"d"}, {"exception", "d"} }

\* Every request for a URL has one outcome.
StableNetwork == Cardinality(net) = 1

RebuildCatalogs ==
    LET lists == { <<"x">>, <<"a", "x">>, <<"x", "">>, <<"b">> }
        products == {i @@ [images |-> l] : i \in Identities, l \in lists}
    IN  SeqsUpTo(products, MaxProducts)

InitRebuild ==
    /\ backend \in Backends
    /\ catalog \in RebuildCatalogs
    /\ max_catalog_images \in {ClampCap(c) : c \in 0..MaxCap}
    /\ max_images_per_product \in {ClampCap(c) : c \in 0..MaxCap}
    /\ hash_size \in IF backend = "hash" THEN {ClampHashSize(MaxHashSize)} ELSE {0}
    /\ net \in Networks
    /\ faiss = NoFaiss
    /\ Fresh

\* The matcher is constructed again: the index of the first construction is kept
\* for comparison, and a new object starts its build from the same catalog and caps.
ConstructAgain ==
    /\ pc = "ready"
    /\ ~earlier.built
    /\ earlier' = [built |-> TRUE,
                   product_images |-> product_images,
                   rows |-> IF index = NoIndex THEN <<>> ELSE index]
    /\ product_images' = <<>>
    /\ product_id_to_idx' = <<>>
    /\ vecs' = <<>>
    /\ index' = NoIndex
    /\ idx' = 0
    /\ p_i' = 1
    /\ img_i' = 1
    /\ pc' = "outer"
    /\ step' = "constructed"
    /\ UNCHANGED <<config, probe, prev, service, matchVars>>

NextRebuild == BuildStep \/ ConstructAgain

RebuildSpec == InitRebuild /\ [][NextRebuild]_vars

----------------------------------------------------------------------------
(* Builds from catalog records with missing, empty or null fields.          *)

DefaultIdentities ==
    { [id |-> "p1", online_store_url |-> "/p1"],
      [shopify_product_id |-> 7, online_store_url |-> "/p7"],
      [id |-> "", shopify_product_id |-> 8, online_store_url |-> "/p8"],
      [id |-> "", null |-> {"id"}, shopify_product_id |-> 9, online_store_url |-> "/p9"],
      [online_store_url |-> "/p0"] }

\* A record without images, with "images": null, or with a list of image URLs, some
\* of them empty or null.
DefaultProducts ==
    LET lists == { <<>>, <<"a">>, <<"a", "b">>, <<"", "x">>, <<NoneUrl, "a">> }
        nulled(i) == [null |-> (IF HasKey(i, "null") THEN i.null ELSE {}) \cup {"images"},
                      images |-> <<>>] @@ i
    IN  DefaultIdentities
        \cup {nulled(i) : i \in DefaultIdentities}
        \cup {i @@ [images |-> l] : i \in DefaultIdentities, l \in lists}

DefaultCatalogs == SeqsUpTo(DefaultProducts, MaxProducts)

InitDefaults ==
    /\ backend \in Backends
    /\ catalog \in DefaultCatalogs
    /\ max_catalog_images \in {ClampCap(c) : c \in 0..MaxCap}
    /\ max_images_per_product \in {ClampCap(c) : c \in 0..MaxCap}
    /\ hash_size \in IF backend = "hash" THEN {ClampHashSize(MaxHashSize)} ELSE {0}
    /\ net = BrokenLink
    /\ faiss = NoFaiss
    /\ Fresh

DefaultsSpec == InitDefaults /\ [][BuildStep]_vars

----------------------------------------------------------------------------
(* Repeated queries of one matcher: a call is remembered, any calls follow. *)

\* Catalogs of the repeated queries: empty; two products with the same image; a
\* product with two images before one with one; empty and broken links.
RepeatCatalogs ==
    LET p1 == [id |-> "p1", online_store_url |-> "/p1"]
        p7 == [shopify_product_id |-> 7, online_store_url |-> "/p7"]
    IN  { <<>>,
          <<p1 @@ [images |-> <<"a">>], p7 @@ [images |-> <<"a">>]>>,
          <<p1 @@ [images |-> <<"a", "b">>], p7 @@ [images |-> <<"a">>]>>,
          <<p1 @@ [images |-> <<"", "x">>], p7 @@ [images |-> <<"b", "a">>]>>,
          <<p1 @@ [images |-> <<"b">>], p1 @@ [images |-> <<"a">>]>> }

InitRepeat == Init /\ catalog \in RepeatCatalogs

NextRepeat == BuildStep \/ Match \/ Forget \/ Remember

RepeatSpec == InitRepeat /\ [][NextRepeat]_vars

----------------------------------------------------------------------------
(* The aggregation of ProductMatcher.match on its own: lines 98-106 applied to *)
(* a search result of any length, also one padded with missing neighbours.     *)

\* How many neighbours more than the index holds a search is asked for.
MaxPad == 1

AggregateProbe ==
    \E file \in QueryFiles, top_k \in TopKs, k \in 1..(Len(product_images) + MaxPad) :
        /\ pc = "ready"
        /\ call = NoCall
        /\ backend = "clip"
        /\ ~IndexEmpty
        /\ ~LoadRaises(file)
        /\ ~ExtractRaises(file)
        /\ LET found == Search(index, EmbedImage(file), k, faiss.low_first)
           IN  /\ cands' = found
               /\ out' = TakeTopK(SortedByScore(Aggregate(found, <<>>)), top_k)
        /\ call' = [file |-> file, top_k |-> top_k, low_first |-> faiss.low_first]
        /\ step' = "aggregated"
        /\ UNCHANGED <<config, aux, product_images, product_id_to_idx, vecs, index, idx,
                       p_i, img_i, pc>>

NextAggregate == BuildStep \/ Match \/ Forget \/ AggregateProbe

AggregateSpec == InitRepeat /\ [][NextAggregate]_vars

----------------------------------------------------------------------------
(* Queries of indexes of three to five images: the neighbours asked for are   *)
(* fewer than the index holds, a product owns the nearest images, products    *)
(* tie, and a product's better image comes after another product's.           *)

RankCatalogs ==
    LET p1 == [id |-> "p1", online_store_url |-> "/p1"]
        p7 == [shopify_product_id |-> 7, online_store_url |-> "/p7"]
    IN  { <<p1 @@ [images |-> <<"a", "b">>], p7 @@ [images |-> <<"a">>]>>,
          <<p1 @@ [images |-> <<"b", "b">>], p7 @@ [images |-> <<"a">>]>>,
          <<p1 @@ [images |-> <<"b">>], p7 @@ [images |-> <<"a">>],
            p1 @@ [images |-> <<"a">>]>>,
          <<p1 @@ [images |-> <<"a", "b">>], p7 @@ [images |-> <<"b", "a">>]>>,
          <<p1 @@ [images |-> <<"b", "b">>], p1 @@ [images |-> <<"b", "b">>],
            p7 @@ [images |-> <<"a">>]>>,
          <<p1 @@ [images |-> <<"x", "">>]>> }

InitRank ==
    /\ backend \in Backends
    /\ catalog \in RankCatalogs
    /\ max_catalog_images \in {ClampCap(c) : c \in MaxImages..(MaxProducts * MaxImages + 1)}
    /\ max_images_per_product = ClampCap(MaxImages)
    /\ hash_size \in IF backend = "hash" THEN {ClampHashSize(MaxHashSize)} ELSE {0}
    /\ net = BrokenLink
    /\ faiss \in IF backend = "clip" THEN FaissBuilds ELSE {NoFaiss}
    /\ Fresh

RankSpec == InitRank /\ [][Next]_vars

----------------------------------------------------------------------------
(* The build run to its end: the steps of _build_index are taken as long as   *)
(* one is possible (the code is sequential, and each fetch ends).             *)

\* Networks: the broken link times out, is flaky (times out or serves the image
\* "d"), or fails in the other ways.
TimeoutNetworks == { {"timeout"}, {"timeout", "d"}, BrokenLink }

InitFairBuild ==
    /\ backend \in Backends
    /\ catalog \in Catalogs
    /\ max_catalog_images \in {ClampCap(c) : c \in 0..MaxCap}
    /\ max_images_per_product \in {ClampCap(c) : c \in 0..MaxCap}
    /\ hash_size \in IF backend = "hash" THEN {ClampHashSize(MaxHashSize)} ELSE {0}
    /\ net \in TimeoutNetworks
    /\ faiss = NoFaiss
    /\ Fresh

FairBuildSpec == InitFairBuild /\ [][BuildStep]_vars /\ WF_vars(BuildStep)

----------------------------------------------------------------------------
(* The service (main.py): the cached matcher, the catalog file, and requests. *)
(* The handlers declared async (match_image, zendesk_webhook) run on the event *)
(* loop, one at a time between awaits; the sync handlers run in the thread     *)
(* pool, in parallel with the event loop.  The matcher fields above are those  *)
(* of the ProductMatcher that get_matcher is constructing.                     *)

MaxLoads == 3         \* calls of load_model in one process
MaxSyncs == 2         \* sync requests in one process
MaxInFlight == 2      \* match requests suspended at one time
MaxAttachments == 2   \* image attachments of one ticket

\* The defaults of ProductMatcher.__init__, which get_matcher leaves in force.
DefaultMaxCatalogImages == 80

DefaultMaxImagesPerProduct == 1

\* The catalog that sync_quick writes.
QuickCatalog ==
    <<[id |-> "test", online_store_url |-> "/products/test", images |-> <<>>]>>

\* Catalogs that sync_catalog fetches: every first image good; a good image, a broken
\* link and an empty URL.
FetchedCatalogs ==
    { <<[id |-> "p1", online_store_url |-> "/p1", images |-> <<"a">>],
        [id |-> "p2", online_store_url |-> "/p2", images |-> <<"b">>]>>,
      <<[id |-> "p1", online_store_url |-> "/p1", images |-> <<"b">>],
        [id |-> "p2", online_store_url |-> "/p2", images |-> <<"x">>],
        [id |-> "p3", online_store_url |-> "/p3", images |-> <<"">>]>> }

InitService ==
    /\ backend = "clip"
    /\ catalog = <<>>
    /\ max_catalog_images = ClampCap(DefaultMaxCatalogImages)
    /\ max_images_per_product = ClampCap(DefaultMaxImagesPerProduct)
    /\ hash_size = 0
    /\ net = BrokenLink
    /\ faiss = NoFaiss
    /\ product_images = <<>>
    /\ product_id_to_idx = <<>>
    /\ vecs = <<>>
    /\ index = NoIndex
    /\ idx = 0
    /\ p_i = 1
    /\ img_i = 1
    /\ pc = "none"
    /\ step = "started"
    /\ call = NoCall
    /\ cands = <<>>
    /\ out = <<>>
    /\ probe = <<>>
    /\ prev = NoPrev
    /\ earlier = NoEarlier
    /\ catalog_file \in {<<>>} \cup FetchedCatalogs
    /\ _matcher = NoMatcher
    /\ loads = 0
    /\ loop = NoLoop
    /\ waiting = {}
    /\ sync = NoSync
    /\ served = NoMatcher
    /\ response = NoResponse
    /\ failed = FALSE
    /\ published = FALSE
    /\ request = NoRequest

\* The matcher fields that no step of the service outside the constructor touches.
object == <<product_images, product_id_to_idx, vecs, index, idx, p_i, img_i, pc, step>>

\* get_matcher, line 45: _matcher is read; a cached matcher is returned by line
\* 46, which reads _matcher again.
EnterGetMatcher(kind, errs) ==
    [kind |-> kind,
     at |-> IF _matcher.kind # "none" THEN "return" ELSE "load_catalog",
     ref |-> NoMatcher,
     catalog |-> <<>>,
     errors |-> errs]

\* POST /match: match_image calls get_matcher.
MatchImageStart ==
    /\ loop = NoLoop
    /\ loop' = EnterGetMatcher("match", 0)
    /\ UNCHANGED <<config, object, matchVars, probe, prev, earlier, request, catalog_file,
                   _matcher, loads, waiting, sync, served, response, failed, published>>

\* get_matcher, line 46: return _matcher (what it holds now).
GetMatcherReturn ==
    /\ loop.at = "return"
    /\ loop' = [loop EXCEPT !.at = "got", !.ref = _matcher]
    /\ UNCHANGED <<config, object, matchVars, probe, prev, earlier, request, catalog_file,
                   _matcher, loads, waiting, sync, served, response, failed, published>>

\* get_matcher, lines 47-55: the catalog file is loaded.  A file that a sync request
\* is writing holds no complete JSON document: json.load raises.
LoadCatalog ==
    /\ loop.at = "load_catalog"
    /\ loop' = IF sync.at = "writing" THEN [loop EXCEPT !.at = "raised"]
               ELSE IF catalog_file = <<>> THEN [loop EXCEPT !.at = "got"]
               ELSE [loop EXCEPT !.at = "load_model", !.catalog = catalog_file]
    /\ UNCHANGED <<config, object, matchVars, probe, prev, earlier, request, catalog_file,
                   _matcher, loads, waiting, sync, served, response, failed, published>>

\* Faulty variant: the matcher is cached before its index is built.
LoadModelCachesEarly ==
    /\ loop.at = "load_model"
    /\ loads < MaxLoads
    /\ loads' = loads + 1
    /\ catalog' = loop.catalog
    /\ product_images' = <<>>
    /\ product_id_to_idx' = <<>>
    /\ vecs' = <<>>
    /\ index' = NoIndex
    /\ idx' = 0
    /\ p_i' = 1
    /\ img_i' = 1
    /\ pc' = "outer"
    /\ step' = "constructed"
    /\ failed' = FALSE
    /\ loop' = [loop EXCEPT !.at = "build"]
    /\ _matcher' = [kind |-> "obj", catalog |-> loop.catalog, product_images |-> <<>>,
                    rows |-> <<>>, complete |-> FALSE]
    /\ UNCHANGED <<backend, max_catalog_images, max_images_per_product, hash_size, net,
                   faiss, matchVars, probe, prev, earlier, request, catalog_file, waiting,
                   sync, served, response, published>>

\* ProductMatcher.__init__, lines 27-36: load_model returns, the fields are set.
LoadModel ==
    /\ loop.at = "load_model"
    /\ loads < MaxLoads
    /\ loads' = loads + 1
    /\ catalog' = loop.catalog
    /\ product_images' = <<>>
    /\ product_id_to_idx' = <<>>
    /\ vecs' = <<>>
    /\ index' = NoIndex
    /\ idx' = 0
    /\ p_i' = 1
    /\ img_i' = 1
    /\ pc' = "outer"
    /\ step' = "constructed"
    /\ failed' = FALSE
    /\ loop' = [loop EXCEPT !.at = "build"]
    /\ UNCHANGED <<backend, max_catalog_images, max_images_per_product, hash_size, net,
                   faiss, matchVars, probe, prev, earlier, request, catalog_file, _matcher, waiting,
                   sync, served, response, published>>

\* ProductMatcher.__init__, line 27: load_model raises.
LoadModelRaises ==
    /\ loop.at = "load_model"
    /\ loads < MaxLoads
    /\ loads' = loads + 1
    /\ failed' = TRUE
    /\ loop' = [loop EXCEPT !.at = "raised"]
    /\ UNCHANGED <<config, object, matchVars, probe, prev, earlier, request, catalog_file,
                   _matcher, waiting, sync, served, response, published>>

\* Faulty variant: the half-built matcher is cached when build_faiss_index raises.
BuildFaissIndexRaisesCached ==
    /\ loop.at = "build"
    /\ pc = "post"
    /\ vecs # <<>>
    /\ pc' = "failed"
    /\ step' = "build_raised"
    /\ failed' = TRUE
    /\ loop' = [loop EXCEPT !.at = "raised"]
    /\ _matcher' = [kind |-> "obj", catalog |-> catalog, product_images |-> product_images,
                    rows |-> <<>>, complete |-> FALSE]
    /\ UNCHANGED <<config, product_images, product_id_to_idx, vecs, index, idx, p_i, img_i,
                   matchVars, probe, prev, earlier, request, catalog_file, loads, waiting,
                   sync, served, response, published>>

\* _build_index, lines 74-75, outside the try of the loop: np.vstack or
\* build_faiss_index raises, and so does the constructor.
BuildFaissIndexRaises ==
    /\ loop.at = "build"
    /\ pc = "post"
    /\ vecs # <<>>
    /\ pc' = "failed"
    /\ step' = "build_raised"
    /\ failed' = TRUE
    /\ loop' = [loop EXCEPT !.at = "raised"]
    /\ UNCHANGED <<config, product_images, product_id_to_idx, vecs, index, idx, p_i, img_i,
                   matchVars, probe, prev, earlier, request, catalog_file, _matcher, loads, waiting,
                   sync, served, response, published>>

\* The constructed matcher, as a value.
Snapshot ==
    [kind |-> "obj", catalog |-> catalog, product_images |-> product_images,
     rows |-> IF index = NoIndex THEN <<>> ELSE index, complete |-> pc = "ready"]

\* get_matcher, lines 56-62: the constructor has returned; the matcher is cached and
\* returned.
Publish ==
    /\ loop.at = "build"
    /\ pc = "ready"
    /\ _matcher' = Snapshot
    /\ published' = TRUE
    /\ loop' = [loop EXCEPT !.at = "got", !.ref = Snapshot]
    /\ UNCHANGED <<config, object, matchVars, probe, prev, earlier, request, catalog_file,
                   loads, waiting, sync, served, response, failed>>

\* _build_index within the service: with the default cap of 80 images and the
\* catalogs above neither cap break can happen.
ServiceBuildStep ==
    \/ OuterDone
    \/ EnterProduct
    \/ InnerDone
    \/ SkipEmptyUrl
    \/ FetchFailed
    \/ ExtractRaised
    \/ IndexImage
    \/ FinishBuild

\* A response of match_image.
MatchImageResponse(status) ==
    [kind |-> "match", accepted |-> TRUE, raised |-> status = 500, ok |-> status = 200,
     status |-> status, reason |-> "", predictions |-> 0, errors |-> 0]

\* match_image, lines 369-374: no matcher gives 503; otherwise the handler awaits
\* the form and the file, and other requests run before it goes on.
MatchImageGot ==
    /\ loop.kind = "match"
    /\ loop.at = "got"
    /\ IF loop.ref.kind = "none"
       THEN /\ response' = MatchImageResponse(503)
            /\ UNCHANGED waiting
       ELSE /\ Cardinality(waiting \cup {loop.ref}) <= MaxInFlight
            /\ waiting' = waiting \cup {loop.ref}
            /\ UNCHANGED response
    /\ loop' = NoLoop
    /\ UNCHANGED <<config, object, matchVars, probe, prev, earlier, request, catalog_file,
                   _matcher, loads, sync, served, failed, published>>

\* match_image: get_matcher raised, and so does the handler.
MatchImageRaised ==
    /\ loop.kind = "match"
    /\ loop.at = "raised"
    /\ response' = MatchImageResponse(500)
    /\ loop' = NoLoop
    /\ UNCHANGED <<config, object, matchVars, probe, prev, earlier, request, catalog_file,
                   _matcher, loads, waiting, sync, served, failed, published>>

\* match_image, lines 375-382: the upload is written and matched against the matcher
\* the handler holds; match raises on an upload that is no image.
MatchImageResume ==
    /\ loop = NoLoop
    /\ \E m \in waiting, raises \in BOOLEAN :
          /\ served' = m
          /\ waiting' = waiting \ {m}
          /\ response' = MatchImageResponse(IF raises /\ m.rows # <<>> THEN 500 ELSE 200)
    /\ UNCHANGED <<config, object, matchVars, probe, prev, earlier, request, catalog_file,
                   _matcher, loads, loop, sync, failed, published>>

\* sync_quick, lines 306-310 / _do_sync_catalog, lines 339-342: the file is opened
\* for writing.
SyncStart ==
    /\ sync.at = "idle"
    /\ sync.n < MaxSyncs
    /\ \E c \in {QuickCatalog} \cup FetchedCatalogs :
          sync' = [at |-> "writing", catalog |-> c, n |-> sync.n + 1]
    /\ UNCHANGED <<config, object, matchVars, probe, prev, earlier, request, catalog_file,
                   _matcher, loads, loop, waiting, served, response, failed, published>>

\* save_catalog_to_file returns: the file holds the new catalog.
SyncSaved ==
    /\ sync.at = "writing"
    /\ catalog_file' = sync.catalog
    /\ sync' = [sync EXCEPT !.at = "saved"]
    /\ UNCHANGED <<config, object, matchVars, probe, prev, earlier, request,
                   _matcher, loads, loop, waiting, served, response, failed, published>>

\* sync_quick, line 312 / _do_sync_catalog, line 344: _matcher = None.
SyncReset ==
    /\ sync.at = "saved"
    /\ _matcher' = NoMatcher
    /\ sync' = [sync EXCEPT !.at = "idle", !.catalog = <<>>]
    /\ UNCHANGED <<config, object, matchVars, probe, prev, earlier, request, catalog_file,
                   loads, loop, waiting, served, response, failed, published>>

----------------------------------------------------------------------------
(* zendesk_webhook and process_ticket_attachments. *)

\* What becomes of one image attachment in the loop of lines 134-202: no
\* content_url; the download fails; load_and_strip_exif, match, or the write-back
\* raises inside the try; a prediction; the unlink of the finally clause raises.
AttachmentKinds == {"no_url", "download_failed", "raises", "predicted", "unlink_raises"}

ReasonCodes ==
    {"zendesk_not_configured", "zendesk_fetch_failed", "processing_error",
     "no_images_found", "catalog_not_loaded", "partial_success", "ok"}

\* An outcome of process_ticket_attachments: a result dict, or an exception.
Result(predictions, reason, errors) ==
    [raised |-> FALSE, http |-> FALSE, predictions |-> predictions, reason |-> reason,
     errors |-> errors]

Exception(http) ==
    [raised |-> TRUE, http |-> http, predictions |-> 0, reason |-> "", errors |-> 0]

\* Lines 204-211.
ReasonOf(results, errors) ==
    IF results > 0 /\ errors > 0 THEN "partial_success"
    ELSE IF results > 0 THEN "ok"
    ELSE IF errors > 0 THEN "processing_error"
    ELSE "no_images_found"

\* Lines 134-212: the loop over the attachments, results and errors counted.
RECURSIVE WalkAttachments(_, _, _)
WalkAttachments(atts, results, errors) ==
    IF atts = <<>> THEN Result(results, ReasonOf(results, errors), errors)
    ELSE LET att == Head(atts)
         IN  IF att \in {"no_url", "download_failed", "raises"}
             THEN WalkAttachments(Tail(atts), results, errors + 1)
             ELSE IF att = "predicted"
             THEN WalkAttachments(Tail(atts), results + 1, errors)
             ELSE Exception(FALSE)

\* Faulty variant: an exception of process_ticket_attachments leaves the handler.
NoCatch(outcome) == outcome

\* zendesk_webhook, lines 273-286: an exception of process_ticket_attachments is
\* turned into a result.
CatchAll(outcome) ==
    IF ~outcome.raised THEN outcome
    ELSE Result(0, IF outcome.http THEN "zendesk_fetch_failed" ELSE "processing_error", 1)

\* zendesk_webhook, lines 288-300: the response, or the exception that leaves.
WebhookResponse(outcome) ==
    IF outcome.raised
    THEN [kind |-> "webhook", accepted |-> TRUE, raised |-> TRUE, ok |-> FALSE,
          status |-> 500, reason |-> "", predictions |-> 0, errors |-> 0]
    ELSE [kind |-> "webhook", accepted |-> TRUE, raised |-> FALSE, ok |-> TRUE,
          status |-> 200,
          reason |-> IF outcome.reason = "" THEN "ok" ELSE outcome.reason,
          predictions |-> outcome.predictions, errors |-> outcome.errors]

\* zendesk_webhook, lines 252-268: the signature or secret is wrong (401), the body
\* is no JSON or names no ticket (400).
WebhookRejected ==
    /\ loop = NoLoop
    /\ \E status \in {400, 401} :
          response' = [kind |-> "webhook", accepted |-> FALSE, raised |-> TRUE,
                       ok |-> FALSE, status |-> status, reason |-> "",
                       predictions |-> 0, errors |-> 0]
    /\ UNCHANGED <<config, object, matchVars, probe, prev, earlier, request, catalog_file,
                   _matcher, loads, loop, waiting, sync, served, failed, published>>

\* process_ticket_attachments, lines 93-123, for an accepted request: it ends before
\* get_matcher (Zendesk not configured, the comments cannot be fetched, the ticket
\* number is no integer, no image attachment).
WebhookEnds ==
    /\ loop = NoLoop
    /\ \E outcome \in { Result(0, "zendesk_not_configured", 0),
                        Result(0, "zendesk_fetch_failed", 1),
                        Result(0, "processing_error", 1),
                        Result(0, "no_images_found", 0),
                        Result(0, "no_images_found", 1),
                        Exception(FALSE) } :
          response' = WebhookResponse(CatchAll(outcome))
    /\ UNCHANGED <<config, object, matchVars, probe, prev, earlier, request, catalog_file,
                   _matcher, loads, loop, waiting, sync, served, failed, published>>

\* process_ticket_attachments, lines 96-125: comments fetched, audits fetched or
\* not (an error is noted), attachments found; get_matcher is called.
WebhookStart ==
    /\ loop = NoLoop
    /\ \E audits_failed \in BOOLEAN :
          loop' = EnterGetMatcher("webhook", IF audits_failed THEN 1 ELSE 0)
    /\ UNCHANGED <<config, object, matchVars, probe, prev, earlier, request, catalog_file,
                   _matcher, loads, waiting, sync, served, response, failed, published>>

\* process_ticket_attachments, lines 126-128: no matcher.
WebhookNoMatcher ==
    /\ loop.kind = "webhook"
    /\ loop.at = "got"
    /\ loop.ref.kind = "none"
    /\ response' = WebhookResponse(CatchAll(Result(0, "catalog_not_loaded", loop.errors)))
    /\ loop' = NoLoop
    /\ UNCHANGED <<config, object, matchVars, probe, prev, earlier, request, catalog_file,
                   _matcher, loads, waiting, sync, served, failed, published>>

\* get_matcher raised inside process_ticket_attachments.
WebhookGetMatcherRaised ==
    /\ loop.kind = "webhook"
    /\ loop.at = "raised"
    /\ response' = WebhookResponse(CatchAll(Exception(FALSE)))
    /\ loop' = NoLoop
    /\ UNCHANGED <<config, object, matchVars, probe, prev, earlier, request, catalog_file,
                   _matcher, loads, waiting, sync, served, failed, published>>

\* process_ticket_attachments, lines 130-212, without an await: get_client or mkdir
\* raises, or the attachments are walked with the matcher get_matcher returned.
WebhookProcess ==
    /\ loop.kind = "webhook"
    /\ loop.at = "got"
    /\ loop.ref.kind # "none"
    /\ \E setup_raises \in BOOLEAN,
          atts \in SeqsUpTo(AttachmentKinds, MaxAttachments) \ {<<>>} :
          LET outcome == IF setup_raises THEN Exception(FALSE)
                         ELSE WalkAttachments(atts, 0, loop.errors)
          IN  /\ response' = WebhookResponse(CatchAll(outcome))
              /\ served' = IF setup_raises \/ \A i \in 1..Len(atts) :
                                                 atts[i] \in {"no_url", "download_failed"}
                           THEN served ELSE loop.ref
    /\ loop' = NoLoop
    /\ UNCHANGED <<config, object, matchVars, probe, prev, earlier, request, catalog_file,
                   _matcher, loads, waiting, sync, failed, published>>

NextService ==
    \/ MatchImageStart
    \/ GetMatcherReturn
    \/ LoadCatalog
    \/ LoadModel
    \/ LoadModelRaises
    \/ ServiceBuildStep
    \/ BuildFaissIndexRaises
    \/ Publish
    \/ MatchImageGot
    \/ MatchImageRaised
    \/ MatchImageResume
    \/ SyncStart
    \/ SyncSaved
    \/ SyncReset
    \/ WebhookRejected
    \/ WebhookEnds
    \/ WebhookStart
    \/ WebhookNoMatcher
    \/ WebhookGetMatcherRaised
    \/ WebhookProcess

ServiceSpec == InitService /\ [][NextService]_vars

----------------------------------------------------------------------------
(* zendesk_webhook, lines 244-268: the checks before a ticket is processed.   *)
(* Strings are held as sequences of tokens where they are concatenated.       *)

\* settings.ZENDESK_WEBHOOK_SECRET, stripped: not configured, or "s".
Secrets == {"", "s"}

\* The x-webhook-secret header, stripped: absent or blank, right, wrong.
HeaderSecrets == {"", "s", "w"}

\* The signature timestamp header: absent or empty, or a timestamp.
Timestamps == {<<>>, <<"t1">>, <<"t2">>}

\* The request body: a JSON object with a ticket id, one without, no JSON.
Bodies == {<<"{ticket}">>, <<"{}">>, <<"junk">>}

\* hmac.new(key, msg, hashlib.sha256).digest(): a value that the key and the message
\* determine, different for different keys or messages.
HmacSha256(key, msg) == [key |-> key, msg |-> msg]

\* base64.b64encode(digest).decode("utf-8")
B64Encode(digest) == [b64 |-> digest]

\* The signature headers a sender can attach: none, or the signature of some
\* timestamp and body under the secret or under another key.
Signatures ==
    {NoSignature} \cup
    {B64Encode(HmacSha256(key, t \o b)) :
        key \in {"s", "w"}, t \in Timestamps \ {<<>>}, b \in Bodies}

Requests ==
    [secret : Secrets, header_secret : HeaderSecrets, timestamp : Timestamps,
     signature : Signatures, body : Bodies]

\* zendesk_client.verify_webhook_signature
VerifyWebhookSignature(body_bytes, timestamp, signature_b64, secret) ==
    IF secret = "" THEN FALSE
    ELSE LET msg == timestamp \o body_bytes
             digest == HmacSha256(secret, msg)
             expected == B64Encode(digest)
         IN  expected = signature_b64

\* Lines 251-258: the request is turned away with 401.
InvalidWebhook(req) ==
    IF req.secret # ""
    THEN IF req.header_secret # "" /\ req.header_secret = req.secret THEN FALSE
         ELSE IF req.timestamp # <<>> /\ req.signature # NoSignature
         THEN ~VerifyWebhookSignature(req.body, req.timestamp, req.signature, req.secret)
         ELSE IF req.header_secret # "" THEN TRUE
         ELSE FALSE
    ELSE FALSE

\* Lines 260-268: the status of a body that does not parse or names no ticket (0: the
\* body carries a ticket id).
BodyStatus(body) == IF body = <<"{ticket}">> THEN 0 ELSE 400

HttpError(status) ==
    [kind |-> "webhook", accepted |-> FALSE, raised |-> TRUE, ok |-> FALSE,
     status |-> status, reason |-> "", predictions |-> 0, errors |-> 0]

\* zendesk_webhook, lines 244-300, for a ticket that process_ticket_attachments
\* leaves at once (Zendesk is not configured).
WebhookOutcome(req) ==
    IF InvalidWebhook(req) THEN HttpError(401)
    ELSE IF BodyStatus(req.body) # 0 THEN HttpError(BodyStatus(req.body))
    ELSE WebhookResponse(CatchAll(Result(0, "zendesk_not_configured", 0)))

InitAuth ==
    /\ InitService
    /\ catalog_file = <<>>

\* A webhook request arrives.
ZendeskWebhookReceive ==
    /\ loop = NoLoop
    /\ request = NoRequest \/ response # NoResponse
    /\ request' \in Requests
    /\ response' = NoResponse
    /\ UNCHANGED <<config, object, matchVars, probe, prev, earlier, catalog_file,
                   _matcher, loads, loop, waiting, sync, served, failed, published>>

\* The handler runs to its response: there is no await after request.body() on
\* the way.
ZendeskWebhookAnswer ==
    /\ loop = NoLoop
    /\ request # NoRequest
    /\ response = NoResponse
    /\ response' = WebhookOutcome(request)
    /\ UNCHANGED <<config, object, matchVars, probe, prev, earlier, request, catalog_file,
                   _matcher, loads, loop, waiting, sync, served, failed, published>>

NextAuth == ZendeskWebhookReceive \/ ZendeskWebhookAnswer

AuthSpec == InitAuth /\ [][NextAuth]_vars

----------------------------------------------------------------------------
(* Properties of the index build. *)

\* The index records carrying product id pid.
RecordsOf(pid) == {i \in 1..Len(product_images) : product_images[i].product_id = pid}

\* The catalog records that resolve to product id pid.
EntriesOf(pid) == {k \in 1..Len(catalog) : ProdId(catalog[k]) = pid}

IndexedIds == {product_images[i].product_id : i \in 1..Len(product_images)}

\* A fetch and feature extraction of this URL can succeed.
Indexable(url) ==
    ~EmptyUrl(url) /\ \E img \in FetchImage(url) : img # NoImage /\ ~ExtractRaises(img)

\* C1. Global cap: in every state during and after _build_index, of either matcher,
\* the number of indexed images is at most max_catalog_images (which is >= 1).
C1_GlobalCap ==
    /\ max_catalog_images >= 1
    /\ Len(product_images) <= max_catalog_images

\* The cap stopped the build in the middle of a product.
C1_Witness ==
    /\ step = "inner_break"
    /\ Len(product_images) = max_catalog_images
    /\ img_i > 1

\* C2 as stated: after the build, no product id is carried by more than
\* max_images_per_product index records.
C2_PerProductCapById ==
    pc = "ready" =>
        \A pid \in IndexedIds : Cardinality(RecordsOf(pid)) <= max_images_per_product

\* C2, amended. After the build, the index records carrying a product id are at most
\* max_images_per_product for each catalog record that resolves to that id; so they
\* are at most max_images_per_product when no two catalog records share an id.
C2_PerProductCapByEntry ==
    pc = "ready" =>
        \A pid \in IndexedIds :
            Cardinality(RecordsOf(pid)) <=
                max_images_per_product * Cardinality(EntriesOf(pid))

\* A product with more indexable images than the cap allows was cut down to the cap.
C2_Witness ==
    /\ pc = "ready"
    /\ \E k \in 1..Len(catalog) :
          /\ HasKey(catalog[k], "images")
          /\ Cardinality({j \in 1..Len(catalog[k].images) : Indexable(catalog[k].images[j])})
                > max_images_per_product
          /\ Cardinality(EntriesOf(ProdId(catalog[k]))) = 1
          /\ Cardinality(RecordsOf(ProdId(catalog[k]))) = max_images_per_product

\* The walk of the catalog that the build is specified by: products in catalog
\* order, of each the first max_images_per_product URLs in list order, keeping the
\* non-empty URLs whose fetch and extraction succeed.
RECURSIVE RefWalk(_, _)
RefWalk(k, j) ==
    IF k > Len(catalog) THEN <<>>
    ELSE LET p == catalog[k]
             urls == IF HasKey(p, "images") THEN p.images ELSE <<>>
         IN  IF j > Len(urls) \/ j > max_images_per_product THEN RefWalk(k + 1, 1)
             ELSE IF Indexable(urls[j])
                  THEN <<[product_id |-> ProdId(p),
                          online_store_url |-> StoreUrl(p),
                          position |-> j - 1,
                          image_url |-> urls[j]]>> \o RefWalk(k, j + 1)
                  ELSE RefWalk(k, j + 1)

RefIndex ==
    LET walk == RefWalk(1, 1)
    IN  SubSeq(walk, 1, Min(max_catalog_images, Len(walk)))

\* The index without the features.
IndexKeys ==
    [i \in 1..Len(product_images) |->
        [product_id |-> product_images[i].product_id,
         online_store_url |-> product_images[i].online_store_url,
         position |-> product_images[i].position,
         image_url |-> product_images[i].image_url]]

\* C6. A fetch, decode or extraction failure on one image skips that image only: the
\* step adds no index record and leaves idx alone, the build goes on with the next
\* image of the same product, no build state is stuck, and in the built index every
\* indexable image of the walked slices is present unless the global cap was reached.
C6_SkipChangesNothing ==
    (pc = "inner" /\ step' \in {"fetch_failed", "extract_raised"}) =>
        /\ product_images' = product_images
        /\ product_id_to_idx' = product_id_to_idx
        /\ vecs' = vecs
        /\ idx' = idx
        /\ pc' = "inner"
        /\ p_i' = p_i
        /\ img_i' = img_i + 1

C6_NothingElseLost ==
    /\ pc # "ready" => ENABLED BuildStep
    /\ pc = "ready" =>
          \/ Len(product_images) = max_catalog_images
          \/ \A k \in 1..Len(catalog) :
                \A j \in 1..Len(ImageSlice(catalog[k], max_images_per_product)) :
                    Indexable(catalog[k].images[j]) =>
                        \E i \in 1..Len(product_images) :
                            /\ product_images[i].product_id = ProdId(catalog[k])
                            /\ product_images[i].position = j - 1
                            /\ product_images[i].image_url = catalog[k].images[j]

C6_FailureIsLocal == [][C6_SkipChangesNothing]_vars /\ []C6_NothingElseLost

\* A build in which an image failed and a later image of the same product was indexed.
C6_Witness ==
    /\ pc = "ready"
    /\ Len(product_images) < max_catalog_images
    /\ \E k \in 1..Len(catalog) :
          /\ Len(ImageSlice(catalog[k], max_images_per_product)) = 2
          /\ catalog[k].images[1] = "x"
          /\ \E i \in 1..Len(product_images) :
                /\ product_images[i].product_id = ProdId(catalog[k])
                /\ product_images[i].position = 1

\* C7. The built index is, in order, the first max_catalog_images elements of the
\* reference walk: the build stops as soon as the count reaches the cap, also in the
\* middle of a product.
C7_BuildIsReference ==
    pc = "ready" => IndexKeys = RefIndex

\* Scenario C, and a stop in the middle of a product: the walk is longer than the cap.
C7_Witness ==
    /\ pc = "ready"
    /\ max_catalog_images = 1
    /\ Len(catalog) = 2
    /\ Len(RefWalk(1, 1)) = 2
    /\ Len(product_images) = 1
    /\ product_images[1].product_id = ProdId(catalog[1])

----------------------------------------------------------------------------
(* Properties of match. *)

Returned == step = "match_returned"

\* The candidates of the last call that name an index row.
ValidCands == {i \in 1..Len(cands) : cands[i].ix >= 0}

\* The scores of the candidate images of product pid in the last call.
CandScores(pid) == {cands[i].score : i \in {j \in ValidCands : Row(cands[j].ix).product_id = pid}}

\* C3. Aggregation by maximum: the score reported for a product is the maximum of
\* the scores of that product's candidate images in the query.
C3_AggregationByMax ==
    Returned =>
        \A r \in 1..Len(out) :
            /\ out[r].score \in CandScores(out[r].product_id)
            /\ \A sc \in CandScores(out[r].product_id) : sc <= out[r].score

\* One product with two candidate images of different scores, and one result for it.
C3_Witness ==
    /\ Returned
    /\ Len(out) = 1
    /\ Cardinality(CandScores(out[1].product_id)) = 2
    /\ Cardinality(IndexedIds) = 1

\* C4. Output shape: for top_k >= 1 the returned scores are non-increasing and the
\* result is no longer than top_k.
C4_OutputShape ==
    (Returned /\ call.top_k >= 1) =>
        /\ Len(out) <= call.top_k
        /\ \A i \in 1..Len(out) : \A j \in i..Len(out) : out[i].score >= out[j].score

\* Two products were candidates, the result was cut to the better one.
C4_Witness ==
    /\ Returned
    /\ call.top_k = 1
    /\ Len(out) = 1
    /\ \E i \in ValidCands :
          /\ Row(cands[i].ix).product_id # out[1].product_id
          /\ cands[i].score < out[1].score

\* C5. An empty index is no error: after a build that indexed nothing, every match
\* call, whatever the file and top_k, is answered, and answered with [].
C5_EmptyIndexNoError ==
    (pc = "ready" /\ product_images = <<>>) =>
        /\ IndexEmpty
        /\ step # "match_raised"
        /\ out = <<>>
        /\ call = NoCall =>
              \A file \in QueryFiles, top_k \in TopKs : ENABLED MatchEmpty(file, top_k)

\* A catalog whose only image could not be fetched, queried with an unreadable file.
C5_Witness ==
    /\ Returned
    /\ product_images = <<>>
    /\ \E k \in 1..Len(catalog) : HasKey(catalog[k], "images") /\ catalog[k].images = <<"x">>
    /\ call.file = CorruptFile
    /\ call.top_k > 0
    /\ out = <<>>

\* The query of the last call has the very hash stored for index row i (from 1).
ExactHashMatch(i) ==
    /\ backend = "hash"
    /\ Returned
    /\ call.top_k >= 1
    /\ i \in 1..Len(product_images)
    /\ product_images[i].phash = HashToHex(PHash(call.file, hash_size))

InResultWithFullScore(pid) ==
    \E r \in 1..Len(out) : out[r].product_id = pid /\ out[r].score = ScoreDen

\* C9 as stated: the product of an indexed image whose stored hash is the query hash
\* is in the result with score exactly 1.0, and no result scores higher.
C9_ExactMatchInResult ==
    \A i \in 1..Len(product_images) :
        ExactHashMatch(i) =>
            /\ InResultWithFullScore(product_images[i].product_id)
            /\ \A r \in 1..Len(out) : out[r].score <= ScoreDen

\* C9, amended: the result is headed by a score of exactly 1.0 and none is higher;
\* it holds that image's product with score 1.0 unless top_k other products, each
\* with score exactly 1.0, fill it.
C9_ExactMatchOrFull ==
    \A i \in 1..Len(product_images) :
        ExactHashMatch(i) =>
            /\ out # <<>>
            /\ out[1].score = ScoreDen
            /\ \A r \in 1..Len(out) : out[r].score <= ScoreDen
            /\ \/ InResultWithFullScore(product_images[i].product_id)
               \/ /\ Len(out) = call.top_k
                  /\ \A r \in 1..Len(out) : out[r].score = ScoreDen

\* An exact match of one product beside a weaker match of another product.
C9_Witness ==
    /\ ExactHashMatch(2)
    /\ Len(out) = 1
    /\ out[1].product_id = product_images[2].product_id
    /\ product_images[1].product_id # product_images[2].product_id
    /\ product_images[1].phash # product_images[2].phash

\* C10 as stated: every returned score, of either backend, is in [0, 1].
C10_ScoreInUnitRange ==
    Returned => \A r \in 1..Len(out) : 0 <= out[r].score /\ out[r].score <= ScoreDen

\* C10, amended: hash scores are in [0, 1]; embedding scores are inner products of
\* unit vectors, in [-1, 1].
C10_ScoreRangeByBackend ==
    Returned =>
        \A r \in 1..Len(out) :
            /\ out[r].score <= ScoreDen
            /\ IF backend = "hash" THEN 0 <= out[r].score ELSE -ScoreDen <= out[r].score

\* An embedding match that returns a negative score.
C10_Witness ==
    /\ Returned
    /\ backend = "clip"
    /\ \E r \in 1..Len(out) : out[r].score < 0

----------------------------------------------------------------------------
(* Properties of the hash score. *)

\* C8. For every hash_size >= 4 and every Hamming distance between two hashes of
\* hash_size^2 bits the score is in [0, 1], and a smaller distance never has a
\* smaller score.
C8_HashScoreRangeMonotone ==
    /\ hash_size >= 4
    /\ \A i \in 1..Len(probe) :
          /\ probe[i].distance \in 0..(hash_size * hash_size)
          /\ 0 <= probe[i].score
          /\ probe[i].score <= ScoreDen
    /\ Len(probe) = 2 =>
          /\ probe[1].distance <= probe[2].distance => probe[1].score >= probe[2].score
          /\ probe[2].distance <= probe[1].distance => probe[2].score >= probe[1].score

\* Two distances, the larger one the full bit length, with scores 1 > 0.
C8_Witness ==
    /\ Len(probe) = 2
    /\ probe[1].distance = 0
    /\ probe[2].distance = hash_size * hash_size
    /\ probe[1].score = ScoreDen
    /\ probe[2].score = 0
    /\ hash_size > 4

----------------------------------------------------------------------------
(* Properties of repeated queries. *)

\* The call that has just ended has the arguments of the remembered call.
SameQueryAgain ==
    /\ call # NoCall
    /\ prev # NoPrev
    /\ call.file = prev.file
    /\ call.top_k = prev.top_k

----------------------------------------------------------------------------
(* Properties of a second construction. *)

\* The rows of the FAISS index of the matcher (none when self.index is None).
IndexRows == IF index = NoIndex THEN <<>> ELSE index

----------------------------------------------------------------------------
(* Properties of what match leaves alone. *)

\* A match call is made in this step (it returns or raises).
MatchCalled == call = NoCall /\ call' # NoCall

\* C15. match is read-only: a call of match, of either backend, with any image and
\* any top_k, returning or raising, leaves catalog, caps, product_images,
\* product_id_to_idx and index as they were, so that the calls before it do not
\* change what a call has to work on.
C15_MatchStepReadOnly ==
    MatchCalled =>
        /\ step' \in {"match_returned", "match_raised"}
        /\ UNCHANGED <<catalog, max_catalog_images, max_images_per_product, hash_size,
                       product_images, product_id_to_idx, vecs, index>>

C15_MatchReadOnly == [][C15_MatchStepReadOnly]_vars

\* A call of the hash matcher that returned both products of a two-record index.
C15_Witness ==
    /\ Returned
    /\ backend = "hash"
    /\ Len(product_images) = 2
    /\ Len(out) = 2

----------------------------------------------------------------------------
(* Properties of the defaults of catalog records. *)

\* The record has no id: the key is missing, null or the empty string.
NoId(p) == ~HasKey(p, "id") \/ IsNone(p, "id") \/ p.id = ""

\* The record has no images key, or a null images value.
NoImages(p) == ~HasKey(p, "images") \/ IsNone(p, "images")

\* C19. Catalog record defaults: an index record built from a product record with no
\* (or an empty) id carries the stringified shopify_product_id as its product id; a
\* product record with no images key or a null images value gets no index record,
\* and the build goes on with the next product without error.
C19_StepDefaults ==
    /\ step' = "indexed" =>
          LET p == catalog[p_i]
              rec == product_images'[Len(product_images')]
          IN  /\ ~NoImages(p)
              /\ (NoId(p) /\ HasKey(p, "shopify_product_id")) =>
                    rec.product_id = DigitStr(p.shopify_product_id)
    /\ (pc = "inner" /\ NoImages(catalog[p_i])) =>
          /\ step' = "product_done"
          /\ product_images' = product_images
          /\ pc' = "outer"
          /\ p_i' = p_i + 1

C19_NoImagesGoesOn ==
    (pc = "inner" /\ NoImages(catalog[p_i])) => ENABLED InnerDone

C19_RecordDefaults == [][C19_StepDefaults]_vars /\ []C19_NoImagesGoesOn

\* A record with null images before a record with an empty id: one index record,
\* which carries the Shopify number of the second.
C19_Witness ==
    /\ pc = "ready"
    /\ Len(catalog) = 2
    /\ IsNone(catalog[1], "images")
    /\ HasKey(catalog[2], "id")
    /\ NoId(catalog[2])
    /\ Len(product_images) = 1
    /\ product_images[1].product_id = "8"

----------------------------------------------------------------------------
(* Properties of the aggregation. *)

\* The product ids of the candidates of the last call that name an index row.
CandidateIds == {Row(cands[i].ix).product_id : i \in ValidCands}

\* C20. One result per product, all of them when top_k is large: for top_k >= 0 the
\* result holds each product id at most once, holds no product that only a
\* candidate with a negative index would name, and its length is the smaller of
\* top_k and the number of distinct product ids among the valid candidates.
C20_OnePerProduct ==
    step \in {"match_returned", "aggregated"} =>
        /\ \A i \in 1..Len(out) : \A j \in 1..Len(out) :
              out[i].product_id = out[j].product_id => i = j
        /\ \A i \in 1..Len(out) : out[i].product_id \in CandidateIds
        /\ Len(out) = Min(call.top_k, Cardinality(CandidateIds))

\* A padded search result on an index of two images of one product, with top_k
\* larger than the number of products: the one product is returned.
C20_Witness ==
    /\ step = "aggregated"
    /\ Len(cands) = 3
    /\ cands[3].ix < 0
    /\ Cardinality(CandidateIds) = 1
    /\ call.top_k = 2
    /\ Len(out) = 1

----------------------------------------------------------------------------
(* Properties of the service. *)

\* C16. The encoder is loaded once in the lifetime of the process: load_model is
\* called at most once.
C16_EncoderLoadedOnce == loads <= 1

\* The matchers some request holds or has matched against, and the cached one.
HeldMatchers == {m \in {_matcher, loop.ref, served} \cup waiting : m.kind # "none"}

\* A matcher whose constructor has returned: one index row for every entry of
\* product_images.
FullyBuilt(m) == m.complete /\ Len(m.rows) = Len(m.product_images)

\* C13. Under every interleaving of match requests with catalog refreshes, a match
\* call runs against a matcher whose index is completely built, the old one or the
\* new one; the matcher under construction is never cached or handed out.
C13_AtomicRebuild ==
    /\ \A m \in HeldMatchers : FullyBuilt(m)
    /\ loop.at \in {"load_catalog", "load_model", "build", "raised"} => loop.ref = NoMatcher

\* A request that started before a refresh is answered from the old index after the
\* new matcher has been cached.
C13_Witness ==
    /\ sync.n > 0
    /\ response.kind = "match"
    /\ response.status = 200
    /\ FullyBuilt(served)
    /\ served.rows # <<>>
    /\ _matcher.kind = "obj"
    /\ _matcher.rows # <<>>
    /\ _matcher.catalog # served.catalog

\* C17. When load_model or the construction of the index raises, the constructor
\* raises: get_matcher returns nothing, _matcher stays None, no request holds or is
\* served by the matcher that was under construction, and the next get_matcher
\* starts a construction again.
C17_FailureLeavesNoEngine ==
    failed =>
        /\ _matcher = NoMatcher
        /\ loop.at = "raised" => loop.ref = NoMatcher
        /\ \A m \in HeldMatchers : m.complete
        /\ loop = NoLoop => EnterGetMatcher("match", 0).at = "load_catalog"

\* The index construction has raised with images already recorded, and the request
\* that asked for the matcher has been answered with the failure.
C17_Witness ==
    /\ failed
    /\ pc = "failed"
    /\ product_images # <<>>
    /\ loop = NoLoop
    /\ \/ response.kind = "match" /\ response.status = 500
       \/ response.kind = "webhook" /\ response.reason = "processing_error"

\* C18. A webhook request that passed the signature check and names a ticket never
\* ends in an exception, whatever fails on the way (no images, downloads, the
\* catalog, the matcher, Zendesk): the response has ok = true, a reason code and
\* the errors, and as many predictions as attachments were matched, or fewer.
C18_WebhookNeverThrows ==
    (response.kind = "webhook" /\ response.accepted) =>
        /\ ~response.raised
        /\ response.ok
        /\ response.status = 200
        /\ response.reason \in ReasonCodes
        /\ response.predictions \in 0..MaxAttachments
        /\ response.predictions = 0 => response.reason \notin {"ok", "partial_success"}
        /\ response.reason \in {"processing_error", "zendesk_fetch_failed", "partial_success"}
               => response.errors > 0

\* A webhook whose second attachment could not be matched is answered with the
\* prediction for the first, and one whose get_matcher raised with none.
C18_Witness ==
    /\ response.kind = "webhook"
    /\ response.accepted
    /\ \/ response.reason = "partial_success" /\ response.predictions = 1
       \/ failed /\ response.reason = "processing_error" /\ response.predictions = 0

\* A matcher is being built after one had been built before: a rebuild.
Rebuilding == loop.at = "build" /\ published

\* C14. While a new index is being built after a catalog change, the old index is
\* still the live one, and a match request, new or suspended, can be answered from
\* it without waiting for the build to finish.
C14_RebuildDoesNotBlock ==
    Rebuilding =>
        /\ _matcher.kind = "obj"
        /\ ENABLED MatchImageStart
        /\ waiting # {} => ENABLED MatchImageResume

----------------------------------------------------------------------------
(* Further properties of the index build. *)

\* An image URL that is the empty string or None.
Blank(url) == url = "" \/ url = NoneUrl

\* The build stands at a blank URL of the slice.
AtBlankUrl == pc = "inner" /\ img_i <= Len(CurSlice) /\ Blank(CurUrl)

\* A blank URL comes before position j of product k in the slices the build walks.
BlankBefore(k, j) ==
    \E k2 \in 1..k :
        \E j2 \in 1..Len(ImageSlice(catalog[k2], max_images_per_product)) :
            /\ Blank(catalog[k2].images[j2])
            /\ k2 < k \/ j2 < j

C21_StepOverBlank ==
    AtBlankUrl =>
        /\ step' \in {"empty_url", "inner_break"}
        /\ product_images' = product_images
        /\ product_id_to_idx' = product_id_to_idx
        /\ vecs' = vecs
        /\ idx' = idx
        /\ step' = "empty_url" => (pc' = "inner" /\ p_i' = p_i /\ img_i' = img_i + 1)

C21_BlankStopsNothing ==
    /\ AtBlankUrl => ENABLED BuildStep
    /\ pc = "ready" =>
          \/ Len(product_images) = max_catalog_images
          \/ \A k \in 1..Len(catalog) :
                \A j \in 1..Len(ImageSlice(catalog[k], max_images_per_product)) :
                    (BlankBefore(k, j) /\ Indexable(catalog[k].images[j])) =>
                        \E i \in 1..Len(product_images) :
                            /\ product_images[i].product_id = ProdId(catalog[k])
                            /\ product_images[i].position = j - 1
                            /\ product_images[i].image_url = catalog[k].images[j]

\* C21. An empty or null image URL is skipped: the step at it fetches nothing, adds
\* no index record and leaves idx alone, and the build goes on with the next URL of
\* the product and with the later products (as far as the global cap allows).
C21_EmptyUrlSkipped == [][C21_StepOverBlank]_vars /\ []C21_BlankStopsNothing

\* A null URL was passed over and the URL after it indexed, in a later product than
\* one with an empty URL.
C21_Witness ==
    /\ pc = "ready"
    /\ Len(catalog) = 2
    /\ Len(ImageSlice(catalog[1], max_images_per_product)) = 2
    /\ catalog[1].images[1] = ""
    /\ Len(ImageSlice(catalog[2], max_images_per_product)) = 2
    /\ catalog[2].images[1] = NoneUrl
    /\ \E i \in 1..Len(product_images) :
          /\ product_images[i].product_id = ProdId(catalog[2])
          /\ product_images[i].position = 1

----------------------------------------------------------------------------
(* Further properties of match. *)

\* A match call on a non-empty index has returned.
ReturnedFromIndex == Returned /\ ~IndexEmpty

\* The index rows named by the candidates of the last call.
CandidateRows == {cands[i].ix : i \in 1..Len(cands)}

\* The last call aggregated its candidates, all of them and nothing else: each
\* names a row of its own, and the result holds the candidates' products, as many
\* as top_k allows.
AggregatedOverCands ==
    /\ CandidateRows \subseteq 0..(Len(product_images) - 1)
    /\ Cardinality(CandidateRows) = Len(cands)
    /\ {out[r].product_id : r \in 1..Len(out)} \subseteq CandidateIds
    /\ Len(out) = Min(call.top_k, Cardinality(CandidateIds))

\* C22 as stated: on a non-empty index a match call of either backend takes exactly
\* min(2 * top_k, number of indexed images) image-level candidates and aggregates
\* over exactly those.
C22_CandidateCount ==
    ReturnedFromIndex =>
        /\ Len(cands) = Min(2 * call.top_k, Len(product_images))
        /\ AggregatedOverCands

\* C22, amended. On a non-empty index ProductMatcher.match takes exactly
\* min(2 * top_k, number of indexed images) candidates from the search, and
\* HashProductMatcher.match takes every indexed image as a candidate, whatever
\* top_k; each aggregates over exactly its candidates.
C22_CandidateCountByBackend ==
    ReturnedFromIndex =>
        /\ Len(cands) = IF backend = "clip"
                        THEN Min(2 * call.top_k, Len(product_images))
                        ELSE Len(product_images)
        /\ AggregatedOverCands

\* The embedding backend was asked for two of three images on a call with top_k = 1.
C22_Witness ==
    /\ ReturnedFromIndex
    /\ backend = "clip"
    /\ call.top_k = 1
    /\ Len(product_images) = 3
    /\ Len(cands) = 2

\* The candidates of the last call that are images of product pid, as positions in
\* the candidate sequence.
CandsOf(pid) == {i \in ValidCands : Row(cands[i].ix).product_id = pid}

\* Where product pid is first encountered in the candidate sequence.
FirstSeen(pid) == CHOOSE i \in CandsOf(pid) : \A j \in CandsOf(pid) : i <= j

\* C23. Products with exactly equal aggregated scores are returned in the order in
\* which each was first encountered in the candidate sequence, also when a later
\* candidate of higher score replaced a product's entry; with the descending
\* scores this fixes the order of the result for a candidate sequence.
C23_TieOrder ==
    Returned =>
        \A r \in 1..Len(out) : \A t \in (r + 1)..Len(out) :
            /\ CandsOf(out[r].product_id) # {}
            /\ CandsOf(out[t].product_id) # {}
            /\ \/ out[r].score > out[t].score
               \/ /\ out[r].score = out[t].score
                  /\ FirstSeen(out[r].product_id) < FirstSeen(out[t].product_id)

\* Two products tie; the one returned first was encountered first with a lower
\* score, and reached the tying score by a candidate that came after the other
\* product's.
C23_Witness ==
    /\ Returned
    /\ Len(out) = 2
    /\ out[1].score = out[2].score
    /\ cands[FirstSeen(out[1].product_id)].score < out[1].score
    /\ \E i \in CandsOf(out[1].product_id) :
          /\ cands[i].score = out[1].score
          /\ i > FirstSeen(out[2].product_id)

\* The number of distinct product ids in the index.
DistinctProducts == Cardinality(IndexedIds)

\* No product id has more than two indexed images.
AtMostTwoEach == \A pid \in IndexedIds : Cardinality(RecordsOf(pid)) <= 2

\* C28. No starvation of the aggregation: a HashProductMatcher.match call returns
\* exactly min(top_k, D) results, D the number of distinct product ids in the index,
\* for every top_k >= 0; a ProductMatcher.match call returns at least min(top_k, D)
\* results when no product id has more than two indexed images.
C28_NoStarvation ==
    Returned =>
        /\ backend = "hash" => Len(out) = Min(call.top_k, DistinctProducts)
        /\ (backend = "clip" /\ AtMostTwoEach) =>
              Len(out) >= Min(call.top_k, DistinctProducts)

\* One product owns the two nearest of three images; the embedding backend, asked
\* for the top product, was given those two and returned the one product.
C28_Witness ==
    /\ Returned
    /\ backend = "clip"
    /\ Len(product_images) = 3
    /\ DistinctProducts = 2
    /\ AtMostTwoEach
    /\ call.top_k = 1
    /\ Len(cands) = 2
    /\ Cardinality(CandidateIds) = 1
    /\ Len(out) = 1

----------------------------------------------------------------------------
(* Termination of the index build. *)

\* The steps of the build that fetch an image.
FetchSteps == {"fetch_failed", "extract_raised", "indexed"}

\* The loops only move forward: a step inside a product goes to its next URL, a
\* product is entered at its first URL and left for the next product, and a step
\* that fetches is a step inside a product.  So no URL is fetched twice.
C24_StepForward ==
    /\ (pc = "inner" /\ pc' = "inner") => (p_i' = p_i /\ img_i' = img_i + 1)
    /\ (pc = "outer" /\ pc' = "inner") => (p_i' = p_i /\ img_i' = 1)
    /\ (pc = "inner" /\ pc' = "outer") => p_i' = p_i + 1
    /\ pc \in {"post", "ready"} => pc' \in {"post", "ready"}
    /\ step' \in FetchSteps => (pc = "inner" /\ pc' = "inner")

\* A fetch that times out is a failed fetch: the image is skipped.
C24_TimeoutSkips ==
    (AtImage /\ ~Blank(CurUrl) /\ Download(CurUrl) = {"timeout"}) =>
        /\ step' = "fetch_failed"
        /\ product_images' = product_images
        /\ idx' = idx
        /\ img_i' = img_i + 1

\* C24. The build of every finite catalog finishes, after at most one fetch for each
\* URL it considers (no fetch is repeated), and a fetch that times out is skipped
\* like any other failed fetch.
C24_BuildTerminates ==
    /\ [][C24_StepForward /\ C24_TimeoutSkips]_vars
    /\ <>(pc = "ready")

\* A build has finished in which a fetch timed out and the URL after it was indexed.
C24_Witness ==
    /\ pc = "ready"
    /\ net = {"timeout"}
    /\ \E k \in 1..Len(catalog) :
          /\ Len(ImageSlice(catalog[k], max_images_per_product)) = 2
          /\ catalog[k].images[1] = "x"
          /\ \E i \in 1..Len(product_images) :
                /\ product_images[i].product_id = ProdId(catalog[k])
                /\ product_images[i].position = 1

----------------------------------------------------------------------------
(* Row alignment of ProductMatcher. *)

\* The vectors that embedding the image behind a URL can give.
VectorsOf(url) ==
    {EmbedImage(img) : img \in {f \in FetchImage(url) : f # NoImage /\ ~ExtractRaises(f)}}

\* The rows of the vector collection: vecs during the build, the index after it.
Vectors == IF pc = "ready" /\ index # NoIndex THEN index ELSE vecs

\* Record i was made from position product_images[i].position of a catalog product
\* with its product id.
FromCatalog(i) ==
    LET rec == product_images[i]
    IN  /\ rec.position \in 0..(max_images_per_product - 1)
        /\ \E k \in 1..Len(catalog) :
              /\ ProdId(catalog[k]) = rec.product_id
              /\ HasKey(catalog[k], "images")
              /\ rec.position < Len(catalog[k].images)
              /\ catalog[k].images[rec.position + 1] = rec.image_url

\* product_id_to_idx[pid] is the increasing list of the rows (from 0) whose record
\* carries pid.
RowsListed(pid) ==
    LET rows == product_id_to_idx[pid]
    IN  /\ \A j \in 1..Len(rows) : \A l \in (j + 1)..Len(rows) : rows[j] < rows[l]
        /\ {rows[j] + 1 : j \in 1..Len(rows)} = RecordsOf(pid)

\* C27. In ProductMatcher, before and after every step of _build_index: idx equals
\* len(product_images) and the number of collected vectors; row i of the vectors is
\* the embedding of the image of product_images[i]; product_id_to_idx maps each
\* indexed product id to the increasing list of its rows; each record's image_url
\* is images[position] of a catalog product with its id, position below
\* max_images_per_product.  So every non-negative index a search returns is a
\* position in product_images.
C27_RowAlignment ==
    backend = "clip" =>
        /\ idx = Len(product_images)
        /\ Len(vecs) = idx
        /\ Len(Vectors) = Len(product_images)
        /\ \A i \in 1..Len(product_images) :
              /\ Vectors[i] \in VectorsOf(product_images[i].image_url)
              /\ FromCatalog(i)
        /\ DOMAIN product_id_to_idx = IndexedIds
        /\ \A pid \in IndexedIds : RowsListed(pid)
        /\ \A c \in 1..Len(cands) : cands[c].ix >= 0 => cands[c].ix < Len(product_images)

\* An index of two rows of one product id, both returned by a search.
C27_Witness ==
    /\ backend = "clip"
    /\ Returned
    /\ Len(product_images) = 2
    /\ \E pid \in IndexedIds : product_id_to_idx[pid] = <<0, 1>>
    /\ {cands[c].ix : c \in 1..Len(cands)} = {0, 1}

----------------------------------------------------------------------------
(* Catalog changes in the service. *)

\* C26. Once a catalog sync has completed, a match request that starts afterwards
\* is served by a matcher built from the saved catalog: when no sync and no request
\* is under way, the cached matcher, which the next request will be given, was
\* built from the catalog the file holds.
C26_ChangeTakesEffect ==
    (sync.n > 0 /\ sync.at = "idle" /\ loop = NoLoop /\ _matcher.kind = "obj") =>
        _matcher.catalog = catalog_file

----------------------------------------------------------------------------
(* Authentication of the webhook. *)

\* The request proves knowledge of the secret: by the x-webhook-secret header, or by
\* a signature over its own timestamp and body.
ProvesSecret(req) ==
    \/ req.header_secret = req.secret
    \/ req.signature = B64Encode(HmacSha256(req.secret, req.timestamp \o req.body))

\* C25. With a webhook secret configured, a request gets past the check only if its
\* x-webhook-secret header equals the secret or its signature verifies; every other
\* request is answered with 401 and no ticket is processed.  With no secret
\* configured no request is answered with 401.
C25_WebhookAuthentication ==
    response.kind = "webhook" =>
        IF request.secret # ""
        THEN (response.status # 401) <=> ProvesSecret(request)
        ELSE response.status # 401

====
